---------------------------- MODULE Spec2Model ----------------------------
(***************************************************************************)
(* A model of the LEGO image processor (src/cli/src/lego_image_processor): *)
(* the colour-space converter, the CIEDE2000 distance, the quantizer, the  *)
(* layout generator, the layout validator and the placement grid.          *)
(*                                                                         *)
(* NUMBERS.  The program computes in IEEE doubles; the model computes in   *)
(* 32-bit integers.  Every real quantity is held in fixed point:           *)
(*   - Lab components, chroma and colour differences in hundredths         *)
(*     ("centi-units": L = 53.24 is 5324);                                 *)
(*   - angles in hundredths of a degree (27500 is 275 degrees);            *)
(*   - dimensionless factors (G, T, SL, SC, SH, RC, RT, sines, normalised  *)
(*     channels) in ten-thousandths (1.0 is 10000).                        *)
(* Every division rounds to nearest and is symmetric in sign, as IEEE      *)
(* arithmetic is: Div(-a, b) = -Div(a, b).  sqrt, cbrt, x^2.4, sin, cos,   *)
(* atan2 and exp are computed from integer arithmetic (bisection and       *)
(* Taylor sums), not tabulated.                                            *)
(***************************************************************************)
EXTENDS Integers, Sequences, FiniteSets, TLC

VARIABLES
    d_pc,                       \* delta_e_2000 call: "call" before, "done" after
    lab1, lab2, delta_E,        \* its arguments and the value it returned
    palette,                    \* LegoPalette.colors: a sequence of LegoColor
    f_pc, query, closest,       \* find_closest_color call, argument, returned colour
    image,                      \* the image handed to quantize or generate
    q_pc,                       \* position in ColorQuantizer.quantize
    unique_colors,              \* np.unique: the distinct pixel colours, sorted
    inverse_indices,            \* np.unique: per pixel, its index in unique_colors
    closest_indices,            \* per distinct colour, the index of its palette colour
    batch_i,                    \* the batch loop's i
    q_result,                   \* the QuantizationResult returned
    mask,                       \* the LandSeaMask the LayoutGenerator was built with
    g_pc,                       \* position in LayoutGenerator.generate
    g_calls,                    \* the validation methods generate has called, in order
    progress_callback,          \* TRUE when generate was given a progress_callback
    g_x, g_y,                   \* the loop variables x and y of generate
    positions,                  \* generate's local list of PositionPlacement
    progress,                   \* the (current, total) calls made to progress_callback
    g_error,                    \* the exception generate raised
    grid,                       \* the PositionPlacementGrid generate returned
    kit_spec,                   \* the LEGOWorldMapKitSpecification of the LayoutValidator
    layout,                     \* the PositionPlacementGrid handed to validate
    v_pc,                       \* LayoutValidator.validate call: "call" before, "done" after
    report,                     \* the ValidationReport returned
    p_pc,                       \* life of a PositionPlacementGrid: "new", "constructed", "raised"
    placement_grid,             \* the PositionPlacementGrid object
    p_error,                    \* the exception its construction raised
    json_str,                   \* the text to_json returned
    restored,                   \* the PositionPlacementGrid from_json made of json_str
    pp_pc,                      \* PositionPlacement construction: "call", "constructed", "raised"
    pp_args,                    \* its arguments and the way it is called
    pp_placement,               \* the PositionPlacement object, once it exists
    pp_error,                   \* the exception the construction raised
    mask_files,                 \* per path, the parsed JSON of the mask file, or Missing
    lru_cache,                  \* the entries of load_land_sea_mask's lru_cache, oldest first
    instances,                  \* the number of LandSeaMask objects constructed so far
    l_pc,                       \* per thread, its position in a load_land_sea_mask call
    l_path,                     \* per thread, the mask_path of its call
    l_value,                    \* per thread, the LandSeaMask its call computed or found
    l_error,                    \* per thread, the exception its call raised
    l_left,                     \* per thread, the calls it has still to make
    returns,                    \* the calls that returned, in the order of their return
    statistics                  \* the LayoutStatistics compute_statistics returned

dvars == <<d_pc, lab1, lab2, delta_E>>
fvars == <<f_pc, query, closest>>
qvars == <<q_pc, unique_colors, inverse_indices, closest_indices, batch_i, q_result>>
gvars == <<g_pc, g_calls, progress_callback, g_x, g_y, positions, progress, g_error, grid>>
vvars == <<kit_spec, layout, v_pc, report>>
pvars == <<p_pc, placement_grid, p_error, json_str, restored>>
ppvars == <<pp_pc, pp_args, pp_placement, pp_error>>
lvars == <<mask_files, lru_cache, instances, l_pc, l_path, l_value, l_error, l_left, returns>>
xvars == <<ppvars, lvars, statistics>>
vars == <<dvars, palette, fvars, image, qvars, mask, gvars, vvars, pvars, xvars>>

\* the values variables hold before the operation that sets them has run
NoColor == [id |-> 0, name |-> "", rgb |-> <<>>]
EmptyImage == [width |-> 0, height |-> 0, pixels |-> <<>>]
NoResult ==
    [image |-> EmptyImage, color_mapping |-> <<>>,
     original_colors |-> 0, mapped_colors |-> 0]

\* the variables of an operation that a specification does not exercise
DeltaEOff == d_pc = "off" /\ lab1 = <<>> /\ lab2 = <<>> /\ delta_E = 0
FindOff == f_pc = "off" /\ query = <<>> /\ closest = NoColor
QuantizeOff ==
    /\ q_pc = "off"
    /\ unique_colors = <<>>
    /\ inverse_indices = <<>>
    /\ closest_indices = <<>>
    /\ batch_i = 0
    /\ q_result = NoResult
NoPalette == palette = <<>>
NoImage == image = EmptyImage

EmptyMask ==
    [width |-> 0, height |-> 0, land_positions |-> {},
     land_count |-> 0, total_positions |-> 0, ocean_count |-> 0]
NoError == [exception |-> "", what |-> "", args |-> <<>>]
NoGrid ==
    [width |-> 0, height |-> 0, positions |-> <<>>, position_map |-> <<>>,
     land_positions |-> 0, ocean_positions |-> 0, unique_colors |-> 0,
     coordinate_system |-> "", schema_version |-> "",
     source_image |-> "", generated_at |-> ""]
NoMask == mask = EmptyMask
NoKit ==
    [kit_id |-> "", land_part_id |-> "", ocean_part_id |-> "",
     available_colors_brick |-> <<>>, available_colors_tile |-> <<>>,
     brick_quantities |-> <<>>, tile_quantities |-> <<>>]
NoReport ==
    [buildable |-> FALSE, buildability_score |-> <<0, 1>>, violations |-> <<>>,
     kit_id |-> ""]
ValidateOff ==
    /\ kit_spec = NoKit
    /\ layout = NoGrid
    /\ v_pc = "off"
    /\ report = NoReport
NoPlacement ==
    [x |-> 0, y |-> 0, color_id |-> "", color_name |-> "", lego_color_code |-> "",
     part_type |-> "", lego_part_id |-> ""]
NoArgs == [via |-> "", data |-> NoPlacement]
PositionOff ==
    /\ pp_pc = "off"
    /\ pp_args = NoArgs
    /\ pp_placement = NoPlacement
    /\ pp_error = NoError
Threads == {1, 2}
NoInstance ==
    [id |-> 0, mask |-> EmptyMask, source |-> "", extracted_date |-> ""]
LoadOff ==
    /\ mask_files = <<>>
    /\ lru_cache = <<>>
    /\ instances = 0
    /\ l_pc = [t \in Threads |-> "off"]
    /\ l_path = [t \in Threads |-> ""]
    /\ l_value = [t \in Threads |-> NoInstance]
    /\ l_error = [t \in Threads |-> NoError]
    /\ l_left = [t \in Threads |-> 0]
    /\ returns = <<>>
NoStatistics == [computed |-> FALSE]
StatisticsOff == statistics = NoStatistics
LaterOff == PositionOff /\ LoadOff /\ StatisticsOff
NoJson == [metadata |-> <<>>, positions |-> <<>>, statistics |-> <<>>]
GridOff ==
    /\ p_pc = "off"
    /\ placement_grid = NoGrid
    /\ p_error = NoError
    /\ json_str = NoJson
    /\ restored = NoGrid
GenerateOff ==
    /\ g_pc = "off"
    /\ g_calls = <<>>
    /\ progress_callback = FALSE
    /\ g_x = 0
    /\ g_y = 0
    /\ positions = <<>>
    /\ progress = <<>>
    /\ g_error = NoError
    /\ grid = NoGrid

-----------------------------------------------------------------------------
(* Fixed-point arithmetic.  A value that is used more than once is passed  *)
(* as an operator argument, so that it is evaluated once.                  *)

Abs(a) == IF a >= 0 THEN a ELSE -a

Sgn(a) == IF a > 0 THEN 1 ELSE IF a < 0 THEN -1 ELSE 0

\* a / b rounded to nearest, ties away from zero (b > 0)
Div(a, b) == Sgn(a) * ((Abs(a) + b \div 2) \div b)

\* the product of a (any scale) and b (in ten-thousandths): a * b / 10000,
\* split so that no intermediate exceeds 32 bits
Mul(a, b) ==
    Sgn(a) * Sgn(b) *
        ((Abs(a) \div 10000) * Abs(b) + Div((Abs(a) % 10000) * Abs(b), 10000))

\* one step of a bisection for the largest r in 0..hi with P(r), P being true
\* on an initial segment of 0..hi
BisectStep(P(_), r, bit, hi) ==
    IF r + bit <= hi /\ P(r + bit) THEN r + bit ELSE r

\* the largest r in 0..hi (hi < 65536) with P(r), found bit by bit from 2^15
\* down to 2^0; 0 when P holds nowhere
Bisect(P(_), hi) ==
    IF P(0)
    THEN BisectStep(P, BisectStep(P, BisectStep(P, BisectStep(P,
         BisectStep(P, BisectStep(P, BisectStep(P, BisectStep(P,
         BisectStep(P, BisectStep(P, BisectStep(P, BisectStep(P,
         BisectStep(P, BisectStep(P, BisectStep(P, BisectStep(P,
            0, 32768, hi), 16384, hi), 8192, hi), 4096, hi),
            2048, hi), 1024, hi), 512, hi), 256, hi),
            128, hi), 64, hi), 32, hi), 16, hi),
            8, hi), 4, hi), 2, hi), 1, hi)
    ELSE 0

\* np.sqrt on a value whose scale is the square of the result's scale
Sqrt(n) == Bisect(LAMBDA s : s * s <= n, 46340)

Square(y) == Mul(y, y)

Pow5(y) == Mul(Square(Square(y)), y)

\* the fifth root of x2 in [0, 1] (ten-thousandths)
Root5(x2) == Bisect(LAMBDA y : Pow5(y) <= x2, 10000)

\* x2 ** 1.2
Pow12(x2) == Mul(x2, Root5(x2))

\* x ** 2.4 for x in [0, 1] (ten-thousandths): x^2 * (x^2)^(1/5)
Pow24(x) == Pow12(Square(x))

\* np.cbrt (ten-thousandths in, ten-thousandths out)
Cbrt(x) == Bisect(LAMBDA f : Mul(Square(f), f) <= x, 12000)

\* the Taylor sum of sin x to x^9, in Horner form, x and x2 = x^2 in
\* ten-thousandths of a radian
SinSeries(x, x2) ==
    Mul(x, 10000 - Mul(Div(x2, 6),
           10000 - Mul(Div(x2, 20),
           10000 - Mul(Div(x2, 42),
           10000 - Div(x2, 72)))))

SinRadians(x) == SinSeries(x, Square(x))

\* sin of an angle of 0..90 degrees, in hundredths of a degree
SinQ(t) == SinRadians(Div(t * 31416, 18000))

\* sin of an angle r in 0..35999
SinReduced(r) ==
    IF r <= 9000 THEN SinQ(r)
    ELSE IF r <= 18000 THEN SinQ(18000 - r)
    ELSE IF r <= 27000 THEN -SinQ(r - 18000)
    ELSE -SinQ(36000 - r)

\* np.sin(np.radians(t)), t in hundredths of a degree
Sin(t) == SinReduced(t % 36000)

\* np.cos(np.radians(t))
Cos(t) == Sin(t + 9000)

\* the angle of the vector (a, b), a >= 0 and b >= 0, in 0..9000
AtanQ(b, a) == Bisect(LAMBDA m : a * Sin(m) <= b * Cos(m), 9000)

\* the angle t of (|a|, |b|) carried to the quadrant of (a, b)
Quadrant(b, a, t) ==
    IF a >= 0 /\ b >= 0 THEN t % 36000
    ELSE IF a < 0 /\ b >= 0 THEN 18000 - t
    ELSE IF a < 0 THEN 18000 + t
    ELSE (36000 - t) % 36000

\* np.degrees(np.arctan2(b, a)) % 360, in hundredths of a degree (0..35999)
HueAngle(b, a) ==
    IF a = 0 /\ b = 0 THEN 0 ELSE Quadrant(b, a, AtanQ(Abs(b), Abs(a)))

\* the Taylor sum of exp(-v) to v^5, in Horner form
ExpSeries(v) ==
    10000 - Mul(v, 10000 - Mul(Div(v, 2),
                   10000 - Mul(Div(v, 3),
                   10000 - Mul(Div(v, 4),
                   10000 - Div(v, 5)))))

\* np.exp(-t) for t in [0, 16] (ten-thousandths): (exp(-t/16))^16
ExpNeg(t) == Square(Square(Square(Square(ExpSeries(Div(t, 16))))))

Pow7of(q, q2) == Mul(Mul(Mul(q2, q2), q2), q)

Pow7(q) == Pow7of(q, Square(q))

\* t / (1 + t)
Fraction(t) == Div(t * 10000, 10000 + t)

\* q^7 / (q^7 + 1) for q in ten-thousandths: taken as 1 / (1 + (1/q)^7) when
\* q > 1, which is the same number and stays within 32 bits
Ratio7of(q) ==
    IF q <= 10000
    THEN Fraction(Pow7(q))
    ELSE Div(100000000, 10000 + Pow7(Div(100000000, q)))

\* C**7 / (C**7 + 25**7) for a chroma C in centi-units, in ten-thousandths
Ratio7(C) == Ratio7of(4 * C)

-----------------------------------------------------------------------------
(* palette/converter.py                                                    *)

\* the sRGB gamma of rgb_to_xyz on a normalised channel
gamma_expand(rgb_normalized) ==
    IF rgb_normalized * 10 > 4045
    THEN Pow24(Div((rgb_normalized + 550) * 10000, 10550))
    ELSE Div(rgb_normalized * 100, 1292)

\* one channel of rgb_to_xyz: rgb / 255.0, then sRGB to linear
srgb_to_linear(c) == gamma_expand(Div(c * 10000, 255))

\* the rows of transform_matrix, in hundred-thousandths
transform_matrix ==
    << <<41246, 35758, 18044>>,
       <<21267, 71515,  7218>>,
       << 1933, 11919, 95030>> >>

\* np.dot(rgb_linear, transform_matrix.T) * 100, XYZ in units of 1e-7
dot_transform(r, g, b) ==
    << transform_matrix[1][1] * r + transform_matrix[1][2] * g + transform_matrix[1][3] * b,
       transform_matrix[2][1] * r + transform_matrix[2][2] * g + transform_matrix[2][3] * b,
       transform_matrix[3][1] * r + transform_matrix[3][2] * g + transform_matrix[3][3] * b >>

rgb_to_xyz(rgb) ==
    dot_transform(srgb_to_linear(rgb[1]), srgb_to_linear(rgb[2]), srgb_to_linear(rgb[3]))

\* D65 reference white, in thousandths
ref_white == <<95047, 100000, 108883>>

\* the f function of xyz_to_lab on a normalised component (ten-thousandths):
\* epsilon = 0.008856, kappa = 903.3
f_xyz(v) ==
    IF v * 100 > 8856 THEN Cbrt(v) ELSE Div(9033 * v + 1600000, 1160)

\* L = 116 f_y - 16, a = 500 (f_x - f_y), b = 200 (f_y - f_z), in centi-units
lab_of_f(fx, fy, fz) ==
    << Div(116 * fy - 160000, 100), 5 * (fx - fy), 2 * (fy - fz) >>

\* xyz_to_lab: the components over the reference white, f, then Lab
xyz_to_lab(xyz) ==
    lab_of_f(f_xyz(Div(xyz[1], ref_white[1])),
             f_xyz(Div(xyz[2], ref_white[2])),
             f_xyz(Div(xyz[3], ref_white[3])))

rgb_to_lab(rgb) == xyz_to_lab(rgb_to_xyz(rgb))

-----------------------------------------------------------------------------
(* core/color_quantizer.py: delta_e_2000, in the order of its sections     *)

\* C1, C2 and the adjusted C1', C2': np.sqrt(a**2 + b**2)
chroma(a, b) == Sqrt(a * a + b * b)

\* G = 0.5 * (1 - np.sqrt(C_avg_7 / (C_avg_7 + 25**7)))
G_of(C_avg) == Div(10000 - Sqrt(Ratio7(C_avg) * 10000), 2)

\* h' of one colour, forced to 0 when its chroma is 0
h_prime(C_prime, b, a_prime) == IF C_prime = 0 THEN 0 ELSE HueAngle(b, a_prime)

\* delta h': the signed shortest path between the hue angles
delta_h_prime(h_diff, C1_prime, C2_prime) ==
    IF C1_prime * C2_prime = 0 THEN 0
    ELSE IF Abs(h_diff) <= 18000 THEN h_diff
    ELSE IF h_diff > 18000 THEN h_diff - 36000
    ELSE h_diff + 36000

\* delta H' = 2 * sqrt(C1' C2') * sin(radians(delta_h' / 2))
delta_H_prime(dh, C1_prime, C2_prime) ==
    Div(2 * Sqrt(C1_prime * C2_prime) * Sin(Div(dh, 2)), 10000)

\* a mutant of C_prime_avg: the chroma of the first colour alone, as the
\* CIE94 formula weights
C_prime_avg_first(C1_prime, C2_prime) == C1_prime

\* C_prime_avg = (C1_prime + C2_prime) / 2
C_prime_avg(C1_prime, C2_prime) == Div(C1_prime + C2_prime, 2)

\* average h'
h_prime_avg(h1_prime, h2_prime, C1_prime, C2_prime) ==
    IF C1_prime * C2_prime = 0 THEN h1_prime + h2_prime
    ELSE IF Abs(h2_prime - h1_prime) <= 18000 THEN Div(h1_prime + h2_prime, 2)
    ELSE IF h1_prime + h2_prime < 36000 THEN Div(h1_prime + h2_prime + 36000, 2)
    ELSE Div(h1_prime + h2_prime - 36000, 2)

\* T
T_of(hpa) ==
    10000 - Div(17 * Cos(hpa - 3000), 100)
          + Div(24 * Cos(2 * hpa), 100)
          + Div(32 * Cos(3 * hpa + 600), 100)
          - Div(20 * Cos(4 * hpa - 6300), 100)

\* SL = 1 + 0.015 * q / sqrt(20 + q) on q = (L_prime_avg - 50)**2
SL_of_sq(L_prime_avg_50_sq) ==
    10000 + Div(3 * L_prime_avg_50_sq, 2 * Sqrt(200000 + L_prime_avg_50_sq))

SL_of(L_prime_avg) == SL_of_sq((L_prime_avg - 5000) * (L_prime_avg - 5000))

\* SC = 1 + 0.045 * C_prime_avg
SC_of(Cpa) == 10000 + Div(9 * Cpa, 2)

\* SH = 1 + 0.015 * C_prime_avg * T
SH_of(Cpa, T) == 10000 + Div(3 * Mul(Cpa, T), 2)

\* delta_theta = 30 * exp(-u**2) on u = (h_prime_avg - 275) / 25 (in
\* ten-thousandths); exp(-16) is below the resolution
delta_theta_of(u) ==
    IF Abs(u) >= 40000 THEN 0 ELSE Div(3 * ExpNeg(Mul(u, u)), 10)

\* RT = -sin(radians(2 * delta_theta)) * RC, RC = 2 * sqrt(C'avg^7 / (C'avg^7 + 25^7))
RT_of(Cpa, hpa) ==
    -Mul(Sin(2 * delta_theta_of(4 * (hpa - 27500))), 2 * Sqrt(Ratio7(Cpa) * 10000))

\* the final square root over the three weighted terms and the rotation term
delta_E_of_terms(tL, tC, tH, RT) ==
    Sqrt(tL * tL + tC * tC + tH * tH + Mul(tC * tH, RT))

\* the terms delta / (k * S) with kL = kC = kH = 1.0
delta_E_weighted(dL, dC, dH, SL, SC, SH, RT) ==
    delta_E_of_terms(Div(dL * 10000, SL), Div(dC * 10000, SC), Div(dH * 10000, SH), RT)

\* the weighting functions on the averages
delta_E_of_averages(dL, dC, dH, L_prime_avg, Cpa, hpa) ==
    delta_E_weighted(dL, dC, dH,
                     SL_of(L_prime_avg), SC_of(Cpa), SH_of(Cpa, T_of(hpa)),
                     RT_of(Cpa, hpa))

\* the deltas and the averages of the two colours in (L, C', h')
delta_E_polar(L1, L2, C1_prime, C2_prime, h1_prime, h2_prime) ==
    delta_E_of_averages(
        L2 - L1,
        C2_prime - C1_prime,
        delta_H_prime(delta_h_prime(h2_prime - h1_prime, C1_prime, C2_prime),
                      C1_prime, C2_prime),
        Div(L1 + L2, 2),
        C_prime_avg(C1_prime, C2_prime),
        h_prime_avg(h1_prime, h2_prime, C1_prime, C2_prime))

\* C' and h' of the two colours from the adjusted a'
delta_E_adjusted(L1, L2, a1_prime, a2_prime, b1, b2) ==
    delta_E_polar(L1, L2,
                  chroma(a1_prime, b1), chroma(a2_prime, b2),
                  h_prime(chroma(a1_prime, b1), b1, a1_prime),
                  h_prime(chroma(a2_prime, b2), b2, a2_prime))

\* a' = (1 + G) * a
delta_E_with_G(l1, l2, G) ==
    delta_E_adjusted(l1[1], l2[1],
                     l1[2] + Mul(l1[2], G), l2[2] + Mul(l2[2], G),
                     l1[3], l2[3])

\* delta_e_2000(lab1, lab2) with the default weights kL = kC = kH = 1.0 that
\* every caller uses; the result is in centi-units
delta_e_2000(l1, l2) ==
    delta_E_with_G(l1, l2,
                   G_of(Div(chroma(l1[2], l1[3]) + chroma(l2[2], l2[3]), 2)))

-----------------------------------------------------------------------------
(* The distance on its own: delta_e_2000 applied to a pair of Lab colours  *)

\* Lab colours (centi-units): the pair of test_symmetry, greys of zero chroma,
\* two blues near hue 275 where the rotation term acts, opposite hues (180
\* degrees apart), hues on both sides of 0/360, and a saturated pair
LabSamples ==
    { <<5000, 2000, 3000>>, <<6000, -1000, 4000>>,
      <<5000, 0, 0>>, <<7000, 0, 0>>,
      <<5000, 268, -7978>>, <<5000, 0, -8275>>,
      <<5000, 2000, 0>>, <<5000, -2000, 0>>,
      <<4000, 3000, -500>>, <<4000, 2500, 600>>,
      <<5324, 8010, 6712>>, <<3230, 7915, -10784>> }

InitDeltaE ==
    /\ NoPalette /\ NoImage /\ FindOff /\ QuantizeOff /\ NoMask /\ GenerateOff
    /\ ValidateOff /\ GridOff /\ LaterOff
    /\ lab1 \in LabSamples
    /\ lab2 \in LabSamples
    /\ d_pc = "call"
    /\ delta_E = 0

ComputeDeltaE ==
    /\ d_pc = "call"
    /\ d_pc' = "done"
    /\ delta_E' = delta_e_2000(lab1, lab2)
    /\ UNCHANGED <<xvars, pvars, vvars, lab1, lab2, palette, fvars, image, qvars, mask, gvars>>

NextDeltaE == ComputeDeltaE

SpecDeltaE == InitDeltaE /\ [][NextDeltaE]_vars

\* C5: delta_e_2000 is symmetric: the value returned for (lab1, lab2) differs
\* from the value for (lab2, lab1) by at most 1e-5 (0.001 centi-units)
C5_Symmetric ==
    d_pc = "done" =>
        Abs(delta_E - delta_e_2000(lab2, lab1)) * 1000 <= 1

\* a computed, non-zero distance between colours whose hue difference wraps
\* past 180 degrees
C5_Witness ==
    /\ d_pc = "done"
    /\ lab1 = <<4000, 3000, -500>>
    /\ lab2 = <<4000, 2500, 600>>
    /\ delta_E > 0

-----------------------------------------------------------------------------
(* palette/loader.py: LegoColor and LegoPalette                            *)

\* LegoColor values (the hex field is read by none of the modelled code).
\* Crimson has the RGB of BrightRed under another id and name: duplicate RGB
\* values are not rejected by LegoPalette.
BrightRed  == [id |-> 21, name |-> "Bright Red",  rgb |-> <<201, 26, 9>>]
BrightBlue == [id |-> 23, name |-> "Bright Blue", rgb |-> <<0, 85, 191>>]
Crimson    == [id |-> 5,  name |-> "Crimson",     rgb |-> <<201, 26, 9>>]
White      == [id |-> 1,  name |-> "White",       rgb |-> <<255, 255, 255>>]

ColorPool == {BrightRed, BrightBlue, Crimson, White}

MaxPalette == 2

\* the non-empty palettes of at most MaxPalette distinct colours of the pool,
\* in every order
Palettes ==
    UNION { { p \in [1..n -> ColorPool] : \A i, j \in 1..n : i # j => p[i] # p[j] }
            : n \in 1..MaxPalette }

\* pixel colours: two palette colours, a near-red and a mid grey
PixelColors == { <<201, 26, 9>>, <<0, 85, 191>>, <<200, 30, 10>>, <<128, 128, 128>> }

\* the colours find_closest_color is asked about
QueryColors ==
    PixelColors \cup
        { <<255, 255, 255>>, <<0, 0, 0>>, <<35, 120, 65>>, <<242, 205, 55>> }

\* f as an explicit table of its values: each f[x] is evaluated once
Tabulated(f) == f @@ <<>>

\* rgb_to_lab and delta_e_2000 on the colours of the model
LabTable == Tabulated([rgb \in QueryColors |-> rgb_to_lab(rgb)])

LabColors == { LabTable[rgb] : rgb \in QueryColors }

DeltaETable ==
    Tabulated([p \in LabColors \X LabColors |-> delta_e_2000(p[1], p[2])])

-----------------------------------------------------------------------------
(* core/color_quantizer.py: ColorQuantizer                                 *)

\* astype(np.uint8) of one colour
uint8(rgb) == [i \in 1..3 |-> rgb[i] % 256]

\* _precompute_palette_lab: self._palette_lab and self._palette_rgb
palette_lab(pal) == [j \in 1..Len(pal) |-> LabTable[pal[j].rgb]]

palette_rgb(pal) == [j \in 1..Len(pal) |-> uint8(pal[j].rgb)]

\* delta_e_2000(lab.reshape(1, 3), self._palette_lab): one distance per
\* palette colour
distances(lab, pal_lab) ==
    [j \in 1..Len(pal_lab) |-> DeltaETable[<<lab, pal_lab[j]>>]]

\* a mutant of argmin: the last of the minima
argmin_last(d) ==
    (CHOOSE j \in 1..Len(d) :
        /\ \A k \in 1..Len(d) : d[j] <= d[k]
        /\ \A k \in (j + 1)..Len(d) : d[k] > d[j]) - 1

\* a mutant of argmin: np.argmax
argmax(d) ==
    (CHOOSE j \in 1..Len(d) :
        /\ \A k \in 1..Len(d) : d[j] >= d[k]
        /\ \A k \in 1..(j - 1) : d[k] < d[j]) - 1

\* np.argmin: the 0-based index of the first occurrence of the minimum
argmin(d) ==
    (CHOOSE j \in 1..Len(d) :
        /\ \A k \in 1..Len(d) : d[j] <= d[k]
        /\ \A k \in 1..(j - 1) : d[k] > d[j]) - 1

\* ColorQuantizer.find_closest_color
find_closest_color(pal, rgb) ==
    LET lab == LabTable[rgb]
        closest_idx == argmin(distances(lab, palette_lab(pal)))
    IN  pal[closest_idx + 1]

InitFind ==
    /\ DeltaEOff /\ NoImage /\ QuantizeOff /\ NoMask /\ GenerateOff /\ ValidateOff /\ GridOff /\ LaterOff
    /\ palette \in Palettes
    /\ f_pc = "call"
    /\ query = <<>>
    /\ closest = NoColor

FindClosestColor(rgb) ==
    /\ f_pc = "call"
    /\ f_pc' = "done"
    /\ query' = rgb
    /\ closest' = find_closest_color(palette, rgb)
    /\ UNCHANGED <<xvars, pvars, vvars, dvars, palette, image, qvars, mask, gvars>>

NextFind == \E rgb \in QueryColors : FindClosestColor(rgb)

SpecFind == InitFind /\ [][NextFind]_vars

\* the distance find_closest_color measures from the query to palette[j]
QueryDistance(j) == delta_e_2000(rgb_to_lab(query), rgb_to_lab(palette[j].rgb))

\* C3: find_closest_color returns a palette colour at minimal distance from the
\* query, and of the palette colours at that minimal distance the one that
\* comes first in palette order
C3_ClosestFirst ==
    f_pc = "done" =>
        \E j \in 1..Len(palette) :
            /\ closest = palette[j]
            /\ \A k \in 1..Len(palette) : QueryDistance(j) <= QueryDistance(k)
            /\ \A k \in 1..(j - 1) : QueryDistance(k) > QueryDistance(j)

\* a tie: the query is at the same minimal distance from both palette colours
\* and the first of them is returned
C3_Witness ==
    /\ f_pc = "done"
    /\ palette = <<Crimson, BrightRed>>
    /\ query = <<200, 30, 10>>
    /\ closest = Crimson

-----------------------------------------------------------------------------
(* core/color_quantizer.py: ColorQuantizer.quantize                        *)

\* the bounds of the images handed to quantize: at most MaxImagePixels pixels
MaxImagePixels == 3

\* batch_size: 1000 in the program, scaled down so that the distinct colours
\* of an image of the model fill more than one batch
BatchSize == 2

\* images in mode RGB (quantize converts any other mode to RGB first): width,
\* height and the pixels in row-major order, as np.array(image).reshape(-1, 3)
\* lists them
ImagesOver(colors, maxPixels) ==
    UNION { [width : {w}, height : {h}, pixels : [1..(w * h) -> colors]]
            : <<w, h>> \in { d \in (1..maxPixels) \X (1..maxPixels) :
                               d[1] * d[2] <= maxPixels } }

QuantizeImages == ImagesOver(PixelColors, MaxImagePixels)

\* the order np.unique(axis=0) sorts the rows in
LexLess(p, q) ==
    \/ p[1] < q[1]
    \/ p[1] = q[1] /\ p[2] < q[2]
    \/ p[1] = q[1] /\ p[2] = q[2] /\ p[3] < q[3]

\* np.unique(pixels.astype(np.uint8), axis=0): the distinct rows, sorted
np_unique(pixels) ==
    LET rows == { uint8(pixels[k]) : k \in 1..Len(pixels) }
    IN  [i \in 1..Cardinality(rows) |->
            CHOOSE c \in rows :
                Cardinality({ d \in rows : LexLess(d, c) }) = i - 1]

\* a mutant of np_inverse: every pixel is given the index of the first
\* distinct colour
np_inverse_zero(pixels, uniq) == [k \in 1..Len(pixels) |-> 0]

\* return_inverse=True: for each pixel the 0-based index of its row in the
\* sorted distinct rows
np_inverse(pixels, uniq) ==
    [k \in 1..Len(pixels) |->
        (CHOOSE i \in 1..Len(uniq) : uniq[i] = uint8(pixels[k])) - 1]

\* a mutant of batch_closest: the batch writes its results at the start of
\* closest_indices, not at its own offset i
batch_closest_no_offset(pal, uniq_lab, cidx, i) ==
    [k \in 1..Len(cidx) |->
        IF k <= BatchSize /\ i + k <= Len(cidx)
        THEN argmin(distances(uniq_lab[i + k], palette_lab(pal)))
        ELSE cidx[k]]

\* one pass of the batch loop at offset i:
\* closest_indices[i:i + batch_size] = np.argmin(distances, axis=1)
batch_closest(pal, uniq_lab, cidx, i) ==
    [k \in 1..Len(cidx) |->
        IF i < k /\ k <= i + BatchSize
        THEN argmin(distances(uniq_lab[k], palette_lab(pal)))
        ELSE cidx[k]]

\* a mutant of mapped_rgb: the distinct colours are passed through unmapped
mapped_rgb_unmapped(pal, uniq, cidx) == uniq

\* mapped_rgb = self._palette_rgb[closest_indices]
mapped_rgb(pal, uniq, cidx) ==
    [k \in 1..Len(cidx) |-> palette_rgb(pal)[cidx[k] + 1]]

InitQuantize ==
    /\ DeltaEOff /\ FindOff /\ NoMask /\ GenerateOff /\ ValidateOff /\ GridOff /\ LaterOff
    /\ palette \in Palettes
    /\ image \in QuantizeImages
    /\ q_pc = "start"
    /\ unique_colors = <<>>
    /\ inverse_indices = <<>>
    /\ closest_indices = <<>>
    /\ batch_i = 0
    /\ q_result = NoResult

\* quantize up to the batch loop: the distinct colours, the inverse indices and
\* closest_indices = np.zeros(len(unique_colors))
QuantizeUnique ==
    /\ q_pc = "start"
    /\ q_pc' = "batches"
    /\ unique_colors' = np_unique(image.pixels)
    /\ inverse_indices' = np_inverse(image.pixels, unique_colors')
    /\ closest_indices' = [k \in 1..Len(unique_colors') |-> 0]
    /\ batch_i' = 0
    /\ UNCHANGED <<xvars, pvars, vvars, dvars, palette, fvars, image, q_result, mask, gvars>>

\* one iteration of: for i in range(0, len(unique_colors), batch_size)
QuantizeBatch ==
    /\ q_pc = "batches"
    /\ batch_i < Len(unique_colors)
    /\ closest_indices' =
            batch_closest(palette,
                          [k \in 1..Len(unique_colors) |-> LabTable[unique_colors[k]]],
                          closest_indices, batch_i)
    /\ batch_i' = batch_i + BatchSize
    /\ UNCHANGED <<xvars, pvars, vvars, dvars, palette, fvars, image, q_pc, unique_colors,
                   inverse_indices, q_result, mask, gvars>>

\* after the loop: the colour mapping, the re-expansion over all pixels and
\* the QuantizationResult
QuantizeReturn ==
    /\ q_pc = "batches"
    /\ batch_i >= Len(unique_colors)
    /\ q_pc' = "done"
    /\ LET mapped == mapped_rgb(palette, unique_colors, closest_indices)
           quantized_pixels ==
               [k \in 1..Len(inverse_indices) |-> uint8(mapped[inverse_indices[k] + 1])]
       IN  q_result' =
               [image |-> [width |-> image.width, height |-> image.height,
                           pixels |-> quantized_pixels],
                color_mapping |->
                    [k \in 1..Len(unique_colors) |->
                        <<unique_colors[k], palette[closest_indices[k] + 1]>>],
                original_colors |-> Len(unique_colors),
                mapped_colors |->
                    Cardinality({ closest_indices[k] : k \in 1..Len(closest_indices) })]
    /\ UNCHANGED <<xvars, pvars, vvars, dvars, palette, fvars, image, unique_colors, inverse_indices,
                   closest_indices, batch_i, mask, gvars>>

NextQuantize == QuantizeUnique \/ QuantizeBatch \/ QuantizeReturn

SpecQuantize == InitQuantize /\ [][NextQuantize]_vars

PaletteRGBs == { palette[j].rgb : j \in 1..Len(palette) }

\* C1: every pixel of the image quantize returns has the RGB of some palette
\* colour
C1_OutputInPalette ==
    q_pc = "done" =>
        \A k \in 1..Len(q_result.image.pixels) :
            q_result.image.pixels[k] \in PaletteRGBs

\* quantize has returned for an image with a pixel outside the palette
C1_Witness ==
    /\ q_pc = "done"
    /\ \E k \in 1..Len(image.pixels) : image.pixels[k] \notin PaletteRGBs
    /\ Len(q_result.image.pixels) = MaxImagePixels

\* C2: on an image whose pixels all have the RGB of a palette colour, quantize
\* returns every pixel unchanged, also when two palette colours share an RGB
C2_IdentityOnPalette ==
    (q_pc = "done" /\ \A k \in 1..Len(image.pixels) : image.pixels[k] \in PaletteRGBs)
        => q_result.image.pixels = image.pixels

\* a palette-only image quantized against a palette whose two entries share
\* the RGB of its pixels
C2_Witness ==
    /\ q_pc = "done"
    /\ palette = <<Crimson, BrightRed>>
    /\ image.pixels = << <<201, 26, 9>>, <<201, 26, 9>> >>
    /\ q_result.image.pixels = image.pixels

\* C4: the image quantize returns has the input's width and height, and each
\* of its pixels is the RGB of find_closest_color of the input pixel at the
\* same position
C4_PerPixelClosest ==
    q_pc = "done" =>
        /\ q_result.image.width = image.width
        /\ q_result.image.height = image.height
        /\ Len(q_result.image.pixels) = image.width * image.height
        /\ \A k \in 1..Len(image.pixels) :
               q_result.image.pixels[k] = find_closest_color(palette, image.pixels[k]).rgb

\* an image whose distinct colours took more than one batch, with a repeated
\* colour re-expanded through the inverse index
C4_Witness ==
    /\ q_pc = "done"
    /\ Len(unique_colors) > BatchSize
    /\ batch_i > BatchSize

-----------------------------------------------------------------------------
(* layout/land_sea_mask.py: LandSeaMask                                    *)

\* LandSeaMask.__init__: the counts are computed from the arguments as given
LandSeaMask(width, height, land_positions) ==
    [width |-> width, height |-> height, land_positions |-> land_positions,
     land_count |-> Cardinality(land_positions),
     total_positions |-> width * height,
     ocean_count |-> width * height - Cardinality(land_positions)]

\* is_land: the IndexError of an out-of-range coordinate, x checked before y;
\* NoError when (x, y) is in range
is_land_error(m, x, y) ==
    IF x < 0 \/ x >= m.width
    THEN [exception |-> "IndexError", what |-> "x coordinate out of range",
          args |-> <<x, m.width>>]
    ELSE IF y < 0 \/ y >= m.height
    THEN [exception |-> "IndexError", what |-> "y coordinate out of range",
          args |-> <<y, m.height>>]
    ELSE NoError

\* a mutant of is_land: land and ocean are exchanged
is_land_inverted(m, x, y) == <<x, y>> \notin m.land_positions

\* is_land on an in-range coordinate
is_land(m, x, y) == <<x, y>> \in m.land_positions

-----------------------------------------------------------------------------
(* layout/position.py: PositionPlacement                                   *)

\* the dataclass constructor
PositionPlacement(x, y, color_id, color_name, lego_color_code, part_type, lego_part_id) ==
    [x |-> x, y |-> y, color_id |-> color_id, color_name |-> color_name,
     lego_color_code |-> lego_color_code, part_type |-> part_type,
     lego_part_id |-> lego_part_id]

\* a mutant of post_init_valid: the pairing of part_type and lego_part_id is
\* not checked
post_init_valid_unpaired(p) ==
    /\ p.x >= 0
    /\ p.y >= 0
    /\ p.part_type \in {"brick", "tile"}
    /\ p.lego_part_id \in {"3062b", "98138"}

\* __post_init__ raises no ValueError
post_init_valid(p) ==
    /\ p.x >= 0
    /\ p.y >= 0
    /\ p.part_type \in {"brick", "tile"}
    /\ p.lego_part_id \in {"3062b", "98138"}
    /\ p.part_type = "brick" => p.lego_part_id = "3062b"
    /\ p.part_type = "tile" => p.lego_part_id = "98138"

-----------------------------------------------------------------------------
(* layout/grid.py: PositionPlacementGrid                                   *)

\* self._position_map: for each coordinate pair of the list, the last
\* placement that has it
position_map(ps) ==
    [c \in { <<ps[i].x, ps[i].y>> : i \in 1..Len(ps) } |->
        ps[CHOOSE i \in 1..Len(ps) :
              /\ <<ps[i].x, ps[i].y>> = c
              /\ \A k \in (i + 1)..Len(ps) : <<ps[k].x, ps[k].y>> # c]]

\* sum(1 for p in self._positions if p.part_type == part_type)
count_part_type(ps, part_type) ==
    Cardinality({ i \in 1..Len(ps) : ps[i].part_type = part_type })

\* len(set(p.color_id for p in self._positions)), 0 for an empty list
count_unique_colors(ps) == Cardinality({ ps[i].color_id : i \in 1..Len(ps) })

\* Python's None, where a string is expected
None == "<None>"

\* the readings of datetime.now(timezone.utc), formatted
Clock == { "2024-05-01T10:00:00Z", "2024-05-02T10:00:00Z" }

\* PositionPlacementGrid.__init__ with _compute_counts; now is the reading of
\* the clock, taken when generated_at is None; schema_version has its default
PositionPlacementGrid(width, height, ps, source_image, generated_at, now) ==
    [width |-> width, height |-> height, positions |-> ps,
     position_map |-> position_map(ps),
     land_positions |-> count_part_type(ps, "brick"),
     ocean_positions |-> count_part_type(ps, "tile"),
     unique_colors |-> count_unique_colors(ps),
     coordinate_system |-> "top_left_origin", schema_version |-> "1.0",
     source_image |-> source_image,
     generated_at |-> IF generated_at = None THEN now ELSE generated_at]

\* the total_positions property
total_positions(g) == g.width * g.height

-----------------------------------------------------------------------------
(* layout/generator.py: LayoutGenerator                                    *)

\* EXPECTED_WIDTH and EXPECTED_HEIGHT: 128 and 80 in the program, scaled down;
\* the width differs from the height, as it does there
EXPECTED_WIDTH == 3

EXPECTED_HEIGHT == 2

\* self._rgb_to_color: a later palette colour overwrites an earlier one of the
\* same RGB
rgb_to_color(pal) ==
    [rgb \in { pal[j].rgb : j \in 1..Len(pal) } |->
        pal[CHOOSE j \in 1..Len(pal) :
               /\ pal[j].rgb = rgb
               /\ \A k \in (j + 1)..Len(pal) : pal[k].rgb # rgb]]

\* _make_color_id on the names of the colour pool: lower case, spaces and
\* hyphens to underscores, prefixed with lego_
make_color_id(color_name) ==
    CASE color_name = "Bright Red" -> "lego_bright_red"
      [] color_name = "Bright Blue" -> "lego_bright_blue"
      [] color_name = "Crimson" -> "lego_crimson"
      [] color_name = "White" -> "lego_white"

\* image.getpixel((x, y)) of an image in mode RGB
getpixel(img, x, y) == img.pixels[y * img.width + x + 1]

\* getpixel raises IndexError outside the image
in_image(img, x, y) == 0 <= x /\ x < img.width /\ 0 <= y /\ y < img.height

\* a mutant of dimensions_mismatch: an image is refused only when both its
\* width and its height are wrong
dimensions_mismatch_both(img) ==
    img.width # EXPECTED_WIDTH /\ img.height # EXPECTED_HEIGHT

\* the condition of _validate_dimensions
dimensions_mismatch(img) ==
    img.width # EXPECTED_WIDTH \/ img.height # EXPECTED_HEIGHT

\* the ValueError of _validate_dimensions: its message holds the image's
\* width and height and the expected width and height
dimension_error(img) ==
    [exception |-> "ValueError", what |-> "Image dimensions",
     args |-> <<img.width, img.height, EXPECTED_WIDTH, EXPECTED_HEIGHT>>]

\* the pixels _validate_colors would refuse
invalid_pixels(img, pal) ==
    { c \in (0..(img.width - 1)) \X (0..(img.height - 1)) :
        getpixel(img, c[1], c[2]) \notin DOMAIN rgb_to_color(pal) }

\* a mutant of first_invalid_pixel: the scan runs down the columns
first_invalid_pixel_by_column(img, pal) ==
    CHOOSE c \in invalid_pixels(img, pal) :
        \A d \in invalid_pixels(img, pal) :
            c[1] * img.height + c[2] <= d[1] * img.height + d[2]

\* the pixel at which the scan of _validate_colors stops: for y in
\* range(height), for x in range(width)
first_invalid_pixel(img, pal) ==
    CHOOSE c \in invalid_pixels(img, pal) :
        \A d \in invalid_pixels(img, pal) :
            c[2] * img.width + c[1] <= d[2] * img.width + d[1]

\* the ValueError of _validate_colors: its message holds the coordinate and
\* the RGB value of the pixel
color_error(c, rgb) ==
    [exception |-> "ValueError", what |-> "Invalid color at pixel",
     args |-> <<c[1], c[2], rgb[1], rgb[2], rgb[3]>>]

\* the ValueError of the lookup in the loop of generate
lookup_error(x, y, rgb) ==
    [exception |-> "ValueError", what |-> "Color lookup failed",
     args |-> <<x, y, rgb[1], rgb[2], rgb[3]>>]

\* a mutant of cell_placement: the coordinates are exchanged
cell_placement_transposed(x, y, color, land) ==
    PositionPlacement(y, x, make_color_id(color.name), color.name,
                      ToString(color.id),
                      IF land THEN "brick" ELSE "tile",
                      IF land THEN "3062b" ELSE "98138")

\* the PositionPlacement generate constructs for the cell (x, y)
cell_placement(x, y, color, land) ==
    PositionPlacement(x, y, make_color_id(color.name), color.name,
                      ToString(color.id),
                      IF land THEN "brick" ELSE "tile",
                      IF land THEN "3062b" ELSE "98138")

\* a mutant of rows_exhausted: the last row is left out
rows_exhausted_early(y) == y >= EXPECTED_HEIGHT - 1

\* for y in range(self.EXPECTED_HEIGHT) has run out
rows_exhausted(y) == y >= EXPECTED_HEIGHT

\* the sizes of the images and of the masks of the model: the expected size,
\* one column or one row less, one more
ImageSizes ==
    { <<EXPECTED_WIDTH, EXPECTED_HEIGHT>>,
      <<EXPECTED_WIDTH - 1, EXPECTED_HEIGHT>>, <<EXPECTED_WIDTH + 1, EXPECTED_HEIGHT>>,
      <<EXPECTED_WIDTH, EXPECTED_HEIGHT - 1>>, <<EXPECTED_WIDTH, EXPECTED_HEIGHT + 1>> }

MaskSizes ==
    { <<EXPECTED_WIDTH, EXPECTED_HEIGHT>>,
      <<EXPECTED_WIDTH - 1, EXPECTED_HEIGHT>>,
      <<EXPECTED_WIDTH, EXPECTED_HEIGHT - 1>>,
      <<EXPECTED_WIDTH + 1, EXPECTED_HEIGHT + 1>> }

\* the colours of the images handed to generate
GenerateColors == { <<201, 26, 9>>, <<0, 85, 191>> }

\* the images in mode RGB of size d whose pixels are of one colour but for
\* those at the indices of one of the sets odds
ImagesOfSize(d, odds) ==
    { [width |-> d[1], height |-> d[2],
       pixels |-> [k \in 1..(d[1] * d[2]) |-> IF k \in odd THEN c[2] ELSE c[1]]]
      : odd \in odds, c \in GenerateColors \X GenerateColors }

\* the images handed to generate: of one colour but for one or two pixels
\* when of the expected size, but for one pixel when of another size
GenerateImages ==
    UNION { ImagesOfSize(d, IF d = <<EXPECTED_WIDTH, EXPECTED_HEIGHT>>
                            THEN { {i, j} : i, j \in 1..(d[1] * d[2]) }
                            ELSE { {i} : i \in 1..(d[1] * d[2]) })
            : d \in ImageSizes }

\* masks whose land cells are those of one colour of a chessboard
Masks ==
    { LandSeaMask(d[1], d[2],
                  { c \in (0..(d[1] - 1)) \X (0..(d[2] - 1)) : (c[1] + c[2]) % 2 = parity })
      : d \in MaskSizes, parity \in {0, 1} }

InitGenerate ==
    /\ DeltaEOff /\ FindOff /\ QuantizeOff /\ ValidateOff /\ GridOff /\ LaterOff
    /\ palette \in Palettes
    /\ mask \in Masks
    /\ image \in GenerateImages
    /\ progress_callback \in BOOLEAN
    /\ g_pc = "validate_dimensions"
    /\ g_calls = <<>>
    /\ g_x = 0
    /\ g_y = 0
    /\ positions = <<>>
    /\ progress = <<>>
    /\ g_error = NoError
    /\ grid = NoGrid

\* self._validate_dimensions(image)
ValidateDimensions ==
    /\ g_pc = "validate_dimensions"
    /\ g_calls' = Append(g_calls, "_validate_dimensions")
    /\ IF dimensions_mismatch(image)
       THEN g_pc' = "raised" /\ g_error' = dimension_error(image)
       ELSE g_pc' = "validate_colors" /\ g_error' = g_error
    /\ UNCHANGED <<xvars, pvars, vvars, dvars, palette, fvars, image, qvars, mask, progress_callback,
                   g_x, g_y, positions, progress, grid>>

\* self._validate_colors(image), then positions = [] and the loop is entered
ValidateColors ==
    /\ g_pc = "validate_colors"
    /\ g_calls' = Append(g_calls, "_validate_colors")
    /\ IF invalid_pixels(image, palette) # {}
       THEN /\ g_pc' = "raised"
            /\ g_error' =
                   color_error(first_invalid_pixel(image, palette),
                               getpixel(image, first_invalid_pixel(image, palette)[1],
                                        first_invalid_pixel(image, palette)[2]))
       ELSE g_pc' = "cells" /\ g_error' = g_error
    /\ positions' = <<>>
    /\ g_x' = 0
    /\ g_y' = 0
    /\ UNCHANGED <<xvars, pvars, vvars, dvars, palette, fvars, image, qvars, mask, progress_callback,
                   progress, grid>>

\* the exception one pass of the loop body raises at (x, y), NoError if none:
\* getpixel, the colour lookup, is_land and the PositionPlacement, in order
cell_error(img, pal, m, x, y) ==
    IF ~in_image(img, x, y)
    THEN [exception |-> "IndexError", what |-> "image index out of range",
          args |-> <<x, y>>]
    ELSE IF getpixel(img, x, y) \notin DOMAIN rgb_to_color(pal)
    THEN lookup_error(x, y, getpixel(img, x, y))
    ELSE IF is_land_error(m, x, y) # NoError
    THEN is_land_error(m, x, y)
    ELSE IF ~post_init_valid(cell_placement(x, y, rgb_to_color(pal)[getpixel(img, x, y)],
                                            is_land(m, x, y)))
    THEN [exception |-> "ValueError", what |-> "PositionPlacement", args |-> <<x, y>>]
    ELSE NoError

\* a mutant of progress_current: the cells are numbered from 0
progress_current_from_zero(x, y) == y * EXPECTED_WIDTH + x

\* current = y * EXPECTED_WIDTH + x + 1
progress_current(x, y) == y * EXPECTED_WIDTH + x + 1

\* total = EXPECTED_WIDTH * EXPECTED_HEIGHT
progress_total == EXPECTED_WIDTH * EXPECTED_HEIGHT

\* one pass of the body of: for y in range(EXPECTED_HEIGHT): for x in
\* range(EXPECTED_WIDTH), with the progress callback
GenerateCell ==
    /\ g_pc = "cells"
    /\ ~rows_exhausted(g_y)
    /\ IF cell_error(image, palette, mask, g_x, g_y) # NoError
       THEN /\ g_pc' = "raised"
            /\ g_error' = cell_error(image, palette, mask, g_x, g_y)
            /\ UNCHANGED <<g_x, g_y, positions, progress>>
       ELSE /\ positions' =
                   Append(positions,
                          cell_placement(g_x, g_y,
                                         rgb_to_color(palette)[getpixel(image, g_x, g_y)],
                                         is_land(mask, g_x, g_y)))
            /\ progress' =
                   IF progress_callback
                   THEN Append(progress, <<progress_current(g_x, g_y), progress_total>>)
                   ELSE progress
            /\ IF g_x + 1 < EXPECTED_WIDTH
               THEN g_x' = g_x + 1 /\ g_y' = g_y
               ELSE g_x' = 0 /\ g_y' = g_y + 1
            /\ UNCHANGED <<g_pc, g_error>>
    /\ UNCHANGED <<xvars, pvars, vvars, dvars, palette, fvars, image, qvars, mask, g_calls,
                   progress_callback, grid>>

\* the source_filename generate is called with
source_filename == "quantized.png"

\* return PositionPlacementGrid(EXPECTED_WIDTH, EXPECTED_HEIGHT, positions,
\* source_filename)
CreateGrid ==
    /\ g_pc = "cells"
    /\ rows_exhausted(g_y)
    /\ g_pc' = "returned"
    /\ \E now \in Clock :
           grid' = PositionPlacementGrid(EXPECTED_WIDTH, EXPECTED_HEIGHT, positions,
                                         source_filename, None, now)
    /\ UNCHANGED <<xvars, pvars, vvars, dvars, palette, fvars, image, qvars, mask, g_calls,
                   progress_callback, g_x, g_y, positions, progress, g_error>>

NextGenerate == ValidateDimensions \/ ValidateColors \/ GenerateCell \/ CreateGrid

SpecGenerate == InitGenerate /\ [][NextGenerate]_vars

\* C6: in every grid generate returns, land_positions + ocean_positions,
\* total_positions, width * height and the number of placements are equal
C6_CountsAgree ==
    g_pc = "returned" =>
        /\ grid.land_positions + grid.ocean_positions = total_positions(grid)
        /\ total_positions(grid) = grid.width * grid.height
        /\ grid.width * grid.height = Len(grid.positions)

\* a returned grid with land and ocean cells, from a mask larger than the grid
C6_Witness ==
    /\ g_pc = "returned"
    /\ mask.width > EXPECTED_WIDTH
    /\ grid.land_positions > 0
    /\ grid.ocean_positions > 0
    /\ Len(grid.positions) = EXPECTED_WIDTH * EXPECTED_HEIGHT

\* C7: a grid generate returns holds one placement per cell of width x height
\* and no other, in row-major order: the placement at list index y * width + x
\* (from 0) has the coordinates (x, y)
C7_RowMajor ==
    g_pc = "returned" =>
        /\ Len(grid.positions) = grid.width * grid.height
        /\ \A x \in 0..(grid.width - 1) : \A y \in 0..(grid.height - 1) :
               /\ grid.positions[y * grid.width + x + 1].x = x
               /\ grid.positions[y * grid.width + x + 1].y = y

\* a returned grid whose last placement is the bottom-right cell
C7_Witness ==
    /\ g_pc = "returned"
    /\ grid.width = EXPECTED_WIDTH
    /\ grid.height = EXPECTED_HEIGHT
    /\ grid.positions[Len(grid.positions)].x = EXPECTED_WIDTH - 1
    /\ grid.positions[Len(grid.positions)].y = EXPECTED_HEIGHT - 1

\* C8: generate never yields a partial result, whatever the mask's width and
\* height: it returns a grid with a placement for every cell, or it fails
\* before a placement was constructed and before the progress callback was
\* invoked
C8_NoPartialResult ==
    /\ g_pc = "returned" => Len(grid.positions) = EXPECTED_WIDTH * EXPECTED_HEIGHT
    /\ g_pc = "raised" => positions = <<>> /\ progress = <<>>

\* C9: when the image's width or height is not the expected one, generate
\* fails in _validate_dimensions, before _validate_colors is called, with an
\* error naming the actual and the expected dimensions; the image is left as
\* it is, no placement is produced, and nothing follows the failure
C9_DimensionError ==
    [][ /\ g_pc # "raised"
        /\ (/\ g_pc = "validate_dimensions"
            /\ image.width # EXPECTED_WIDTH \/ image.height # EXPECTED_HEIGHT)
           => /\ g_pc' = "raised"
              /\ g_calls' = <<"_validate_dimensions">>
              /\ g_error'.exception = "ValueError"
              /\ g_error'.what = "Image dimensions"
              /\ g_error'.args =
                     <<image.width, image.height, EXPECTED_WIDTH, EXPECTED_HEIGHT>>
              /\ image' = image
              /\ positions' = <<>>
              /\ progress' = <<>>
              /\ grid' = NoGrid ]_vars

\* generate has failed on an image of the expected height and a wrong width,
\* one pixel of which is in no palette colour
C9_Witness ==
    /\ g_pc = "raised"
    /\ g_error.what = "Image dimensions"
    /\ image.width = EXPECTED_WIDTH - 1
    /\ image.height = EXPECTED_HEIGHT
    /\ \E k \in 1..Len(image.pixels) : image.pixels[k] \notin PaletteRGBs

\* the pixels of the image whose RGB is the RGB of no palette colour
OffPalette == { k \in 1..Len(image.pixels) : image.pixels[k] \notin PaletteRGBs }

\* C10: when the image has the expected dimensions and a pixel whose RGB is
\* the RGB of no palette colour, generate fails with an invalid-colour error
\* that holds the coordinate of the first such pixel in row-major order, and
\* returns no grid
C10_InvalidColorError ==
    (/\ g_pc \notin {"validate_dimensions", "validate_colors"}
     /\ image.width = EXPECTED_WIDTH
     /\ image.height = EXPECTED_HEIGHT
     /\ OffPalette # {})
        => /\ g_pc = "raised"
           /\ g_error.exception = "ValueError"
           /\ g_error.what = "Invalid color at pixel"
           /\ \E k \in OffPalette :
                  /\ \A j \in OffPalette : k <= j
                  /\ g_error.args[1] = (k - 1) % image.width
                  /\ g_error.args[2] = (k - 1) \div image.width
           /\ positions = <<>>
           /\ grid = NoGrid

\* generate has failed on an image with two pixels in no palette colour, the
\* first of them in row-major order not being the first down the columns
C10_Witness ==
    /\ g_pc = "raised"
    /\ g_error.what = "Invalid color at pixel"
    /\ g_error.args[1] = EXPECTED_WIDTH - 1
    /\ g_error.args[2] = 0
    /\ Cardinality(OffPalette) = 2
    /\ getpixel(image, 0, 1) \notin PaletteRGBs

\* the cells of the grid that the mask classifies as land
MaskLandCells ==
    { c \in (0..(EXPECTED_WIDTH - 1)) \X (0..(EXPECTED_HEIGHT - 1)) :
        c \in mask.land_positions }

\* C11: every placement generate produces at (x, y) is a "brick" of part
\* "3062b" exactly when the mask has (x, y) as land, and a "tile" of part
\* "98138" otherwise; the land and ocean counts of the returned grid are the
\* numbers of land and non-land cells of the mask inside the grid
C11_PartTypeByMask ==
    /\ \A i \in 1..Len(positions) :
           IF <<positions[i].x, positions[i].y>> \in mask.land_positions
           THEN positions[i].part_type = "brick" /\ positions[i].lego_part_id = "3062b"
           ELSE positions[i].part_type = "tile" /\ positions[i].lego_part_id = "98138"
    /\ g_pc = "returned" =>
           /\ grid.positions = positions
           /\ grid.land_positions = Cardinality(MaskLandCells)
           /\ grid.ocean_positions =
                  EXPECTED_WIDTH * EXPECTED_HEIGHT - Cardinality(MaskLandCells)

\* a grid returned under a mask that is larger than the grid and has land
\* cells outside it
C11_Witness ==
    /\ g_pc = "returned"
    /\ mask.land_count > grid.land_positions
    /\ grid.land_positions > 0
    /\ grid.ocean_positions > 0

-----------------------------------------------------------------------------
(* layout/kit_spec.py: LEGOWorldMapKitSpecification                        *)

\* the dataclass with the fields validate reads; land_part_id and
\* ocean_part_id as in the kit's data
LEGOWorldMapKitSpecification(available_colors_brick, available_colors_tile, brick_quantities, tile_quantities) ==
    [kit_id |-> "31203", land_part_id |-> "3062b", ocean_part_id |-> "98138",
     available_colors_brick |-> available_colors_brick,
     available_colors_tile |-> available_colors_tile,
     brick_quantities |-> brick_quantities,
     tile_quantities |-> tile_quantities]

\* color_id in a list
in_list(color_id, colors) == \E j \in 1..Len(colors) : colors[j] = color_id

is_brick_color_available(kit, color_id) == in_list(color_id, kit.available_colors_brick)

is_tile_color_available(kit, color_id) == in_list(color_id, kit.available_colors_tile)

\* dict.get(color_id, 0)
get_quantity(quantities, color_id) ==
    IF color_id \in DOMAIN quantities THEN quantities[color_id] ELSE 0

get_brick_quantity(kit, color_id) == get_quantity(kit.brick_quantities, color_id)

get_tile_quantity(kit, color_id) == get_quantity(kit.tile_quantities, color_id)

-----------------------------------------------------------------------------
(* layout/validator.py: LayoutValidator                                    *)

\* self._color_by_id: a later palette colour overwrites an earlier one of the
\* same color_id
color_by_id(pal) ==
    [color_id \in { make_color_id(pal[j].name) : j \in 1..Len(pal) } |->
        pal[CHOOSE j \in 1..Len(pal) :
               /\ make_color_id(pal[j].name) = color_id
               /\ \A k \in (j + 1)..Len(pal) : make_color_id(pal[k].name) # color_id]]

\* _calculate_color_distance: the Euclidean distance in RGB, in hundredths
calculate_color_distance(rgb1, rgb2) ==
    Sqrt(10000 * ((rgb1[1] - rgb2[1]) * (rgb1[1] - rgb2[1])
                  + (rgb1[2] - rgb2[2]) * (rgb1[2] - rgb2[2])
                  + (rgb1[3] - rgb2[3]) * (rgb1[3] - rgb2[3])))

\* ColorSuggestion, and the None that _find_nearest_color returns
ColorSuggestion(color_id, color_name, color_distance) ==
    [color_id |-> color_id, color_name |-> color_name,
     color_distance |-> color_distance]

NoSuggestion == [color_id |-> "", color_name |-> "", color_distance |-> -1]

\* a mutant of candidates: the permitted colours are looked up by the names
\* of the palette, not by their color_ids
candidates_by_name(pal, available_colors) ==
    { j \in 1..Len(available_colors) :
        available_colors[j] \in { pal[k].name : k \in 1..Len(pal) } }

\* the indices of available_colors that _find_nearest_color does not skip
candidates(pal, available_colors) ==
    { j \in 1..Len(available_colors) : available_colors[j] \in DOMAIN color_by_id(pal) }

\* the distance _find_nearest_color computes for available_colors[j]
candidate_distance(pal, target_color_id, available_colors, j) ==
    calculate_color_distance(color_by_id(pal)[target_color_id].rgb,
                             color_by_id(pal)[available_colors[j]].rgb)

\* a mutant of best_candidate: the comparison is <=, so that the last of the
\* nearest candidates is kept
best_candidate_last(pal, target_color_id, available_colors) ==
    CHOOSE j \in candidates(pal, available_colors) :
        \A k \in candidates(pal, available_colors) :
            /\ candidate_distance(pal, target_color_id, available_colors, j)
                  <= candidate_distance(pal, target_color_id, available_colors, k)
            /\ k > j =>
                  candidate_distance(pal, target_color_id, available_colors, k)
                      > candidate_distance(pal, target_color_id, available_colors, j)

\* the index the scan of _find_nearest_color ends with: best_suggestion is
\* replaced only by a candidate with distance < best_distance
best_candidate(pal, target_color_id, available_colors) ==
    CHOOSE j \in candidates(pal, available_colors) :
        \A k \in candidates(pal, available_colors) :
            /\ candidate_distance(pal, target_color_id, available_colors, j)
                  <= candidate_distance(pal, target_color_id, available_colors, k)
            /\ k < j =>
                  candidate_distance(pal, target_color_id, available_colors, k)
                      > candidate_distance(pal, target_color_id, available_colors, j)

\* the ColorSuggestion for the candidate at index j
suggestion_at(pal, target_color_id, available_colors, j) ==
    ColorSuggestion(available_colors[j],
                    color_by_id(pal)[available_colors[j]].name,
                    candidate_distance(pal, target_color_id, available_colors, j))

\* _find_nearest_color
find_nearest_color(pal, target_color_id, available_colors) ==
    IF target_color_id \notin DOMAIN color_by_id(pal) THEN NoSuggestion
    ELSE IF candidates(pal, available_colors) = {} THEN NoSuggestion
    ELSE suggestion_at(pal, target_color_id, available_colors,
                       best_candidate(pal, target_color_id, available_colors))

\* the branch of validate's counting loop a placement takes: brick_colors when
\* its part_type is "brick", tile_colors otherwise
counted_as(p) == IF p.part_type = "brick" THEN "brick" ELSE "tile"

\* brick_colors[color_id] or tile_colors[color_id] after the counting loop
color_count(ps, part_type, color_id) ==
    Cardinality({ i \in 1..Len(ps) :
                    counted_as(ps[i]) = part_type /\ ps[i].color_id = color_id })

\* the indices at which a color_id is first counted for part_type
first_counted(ps, part_type) ==
    { i \in 1..Len(ps) :
        /\ counted_as(ps[i]) = part_type
        /\ \A k \in 1..(i - 1) :
               ~(counted_as(ps[k]) = part_type /\ ps[k].color_id = ps[i].color_id) }

\* the keys of a Counter, in the order of their first insertion
counter_keys(ps, part_type) ==
    [n \in 1..Cardinality(first_counted(ps, part_type)) |->
        ps[CHOOSE i \in first_counted(ps, part_type) :
              Cardinality({ k \in first_counted(ps, part_type) : k < i }) = n - 1].color_id]

\* color_names.get(color_id, color_id): the name on the last placement of the
\* colour
color_name_of(ps, color_id) ==
    ps[CHOOSE i \in 1..Len(ps) :
          /\ ps[i].color_id = color_id
          /\ \A k \in (i + 1)..Len(ps) : ps[k].color_id # color_id].color_name

ColorUnavailableViolation(part_type, part_id, color_id, color_name, positions_required, suggested_alternative) ==
    [type |-> "color_unavailable", part_type |-> part_type, part_id |-> part_id,
     color_id |-> color_id, color_name |-> color_name,
     positions_required |-> positions_required,
     suggested_alternative |-> suggested_alternative]

QuantityExceededViolation(part_type, part_id, color_id, color_name, positions_required, kit_quantity, shortfall) ==
    [type |-> "quantity_exceeded", part_type |-> part_type, part_id |-> part_id,
     color_id |-> color_id, color_name |-> color_name,
     positions_required |-> positions_required,
     kit_quantity |-> kit_quantity, shortfall |-> shortfall]

\* the kit's answers for one part type
is_color_available(kit, part_type, color_id) ==
    IF part_type = "brick"
    THEN is_brick_color_available(kit, color_id)
    ELSE is_tile_color_available(kit, color_id)

available_colors(kit, part_type) ==
    IF part_type = "brick" THEN kit.available_colors_brick ELSE kit.available_colors_tile

available_quantity(kit, part_type, color_id) ==
    IF part_type = "brick"
    THEN get_brick_quantity(kit, color_id)
    ELSE get_tile_quantity(kit, color_id)

kit_part_id(kit, part_type) ==
    IF part_type = "brick" THEN kit.land_part_id ELSE kit.ocean_part_id

\* a mutant of violates: a shortage is reported from count >= available
violates_at_equal(kit, ps, part_type, color_id) ==
    \/ ~is_color_available(kit, part_type, color_id)
    \/ color_count(ps, part_type, color_id) >= available_quantity(kit, part_type, color_id)

\* one pass of a validation loop appends a violation
violates(kit, ps, part_type, color_id) ==
    \/ ~is_color_available(kit, part_type, color_id)
    \/ color_count(ps, part_type, color_id) > available_quantity(kit, part_type, color_id)

\* a mutant of quantity_violation: the shortfall is the count, the kit's
\* quantity is not subtracted
quantity_violation_required(kit, ps, part_type, color_id) ==
    QuantityExceededViolation(
        part_type, kit_part_id(kit, part_type), color_id, color_name_of(ps, color_id),
        color_count(ps, part_type, color_id),
        available_quantity(kit, part_type, color_id),
        color_count(ps, part_type, color_id))

\* the QuantityExceededViolation of a colour in short supply
quantity_violation(kit, ps, part_type, color_id) ==
    QuantityExceededViolation(
        part_type, kit_part_id(kit, part_type), color_id, color_name_of(ps, color_id),
        color_count(ps, part_type, color_id),
        available_quantity(kit, part_type, color_id),
        color_count(ps, part_type, color_id)
            - available_quantity(kit, part_type, color_id))

\* the violation that pass appends
violation_of(kit, pal, ps, part_type, color_id) ==
    IF ~is_color_available(kit, part_type, color_id)
    THEN ColorUnavailableViolation(
             part_type, kit_part_id(kit, part_type), color_id,
             color_name_of(ps, color_id), color_count(ps, part_type, color_id),
             find_nearest_color(pal, color_id, available_colors(kit, part_type)))
    ELSE quantity_violation(kit, ps, part_type, color_id)

\* the violations one validation loop appends, in the order of the Counter
loop_violations(kit, pal, ps, part_type) ==
    [n \in 1..Len(SelectSeq(counter_keys(ps, part_type),
                            LAMBDA c : violates(kit, ps, part_type, c))) |->
        violation_of(kit, pal, ps, part_type,
                     SelectSeq(counter_keys(ps, part_type),
                               LAMBDA c : violates(kit, ps, part_type, c))[n])]

\* what a violation adds to total_violation_positions
violation_positions(v) ==
    IF v.type = "color_unavailable" THEN v.positions_required ELSE v.shortfall

\* total_violation_positions after both loops
RECURSIVE total_violation_positions(_)
total_violation_positions(violations) ==
    IF violations = <<>> THEN 0
    ELSE violation_positions(Head(violations))
             + total_violation_positions(Tail(violations))

\* buildability_score = buildable_positions / total_positions if
\* total_positions > 0 else 0.0, as the fraction <<numerator, denominator>>
buildability_score(total, violation_total) ==
    IF total > 0 THEN <<total - violation_total, total>> ELSE <<0, 1>>

\* the ValidationReport of the violations found
ValidationReport(kit, grid_checked, violations) ==
    [buildable |-> Len(violations) = 0,
     buildability_score |->
         buildability_score(total_positions(grid_checked),
                            total_violation_positions(violations)),
     violations |-> violations,
     kit_id |-> kit.kit_id]

\* LayoutValidator.validate
validate(kit, pal, grid_checked) ==
    ValidationReport(kit, grid_checked,
                     loop_violations(kit, pal, grid_checked.positions, "brick")
                         \o loop_violations(kit, pal, grid_checked.positions, "tile"))

\* the palettes of the validator: one with three RGBs, two in which Crimson
\* and Bright Red share an RGB, and one of a single colour
ValidatePalettes ==
    { <<BrightRed, BrightBlue, White>>,
      <<BrightBlue, Crimson, BrightRed>>,
      <<White, BrightRed, Crimson>>,
      <<BrightRed>> }

\* one side of a kit, for bricks or for tiles: the permitted colours in order
\* and the quantities; "lego_black" is a colour of no palette, and a permitted
\* colour may have no quantity
KitSides ==
    { [colors |-> <<>>, quantities |-> <<>>],
      [colors |-> <<"lego_bright_red", "lego_bright_blue", "lego_white">>,
       quantities |-> ("lego_bright_red" :> 1) @@ ("lego_bright_blue" :> 2)],
      [colors |-> <<"lego_crimson", "lego_bright_red">>,
       quantities |-> ("lego_bright_red" :> 2) @@ ("lego_crimson" :> 1)],
      [colors |-> <<"lego_white", "lego_bright_red", "lego_crimson">>,
       quantities |-> ("lego_bright_red" :> 3) @@ ("lego_white" :> 3)],
      [colors |-> <<"lego_black", "lego_white">>,
       quantities |-> ("lego_white" :> 1) @@ ("lego_bright_blue" :> 5)] }

Kits ==
    { LEGOWorldMapKitSpecification(b.colors, t.colors, b.quantities, t.quantities)
      : b \in KitSides, t \in KitSides }

\* the number of placements of a layout handed to validate
MaxLayoutPositions == 3

\* the colours of the placements
LayoutColors == {BrightRed, BrightBlue, White}

\* placement lists as generate writes them, row by row over two columns, of
\* every length up to MaxLayoutPositions
LayoutPositions ==
    UNION { { [i \in 1..n |-> cell_placement((i - 1) % 2, (i - 1) \div 2,
                                             c[i][1], c[i][2])]
              : c \in [1..n -> LayoutColors \X BOOLEAN] }
            : n \in 0..MaxLayoutPositions }

\* the grids handed to validate: one row of two cells, one cell, and no cell
\* at all, each with every list: the list fills the grid as generate fills
\* it, is sparse, or is longer than width * height
Layouts ==
    { PositionPlacementGrid(d[1], d[2], ps, source_filename, "2024-05-01T10:00:00Z", None)
      : d \in { <<0, 0>>, <<1, 1>>, <<2, 1>> }, ps \in LayoutPositions }

InitValidate ==
    /\ DeltaEOff /\ FindOff /\ QuantizeOff /\ NoImage /\ NoMask /\ GenerateOff
    /\ palette \in ValidatePalettes
    /\ kit_spec \in Kits
    /\ layout \in Layouts
    /\ v_pc = "call"
    /\ report = NoReport
    /\ GridOff /\ LaterOff

\* LayoutValidator(kit_spec, palette).validate(layout, layout_file)
Validate ==
    /\ v_pc = "call"
    /\ v_pc' = "done"
    /\ report' = validate(kit_spec, palette, layout)
    /\ UNCHANGED <<xvars, pvars, dvars, palette, fvars, image, qvars, mask, gvars, kit_spec, layout>>

NextValidate == Validate

SpecValidate == InitValidate /\ [][NextValidate]_vars

\* the color_ids of the model: those of the colour pool and "lego_black"
ColorIds ==
    { "lego_bright_red", "lego_bright_blue", "lego_white", "lego_crimson", "lego_black" }

\* the number of placements of the layout with a part type and a color_id
Placed(part_type, color_id) ==
    Cardinality({ i \in 1..Len(layout.positions) :
                    /\ layout.positions[i].part_type = part_type
                    /\ layout.positions[i].color_id = color_id })

\* the violations of the report for a part type and a color_id
Reported(part_type, color_id) ==
    { i \in 1..Len(report.violations) :
        /\ report.violations[i].part_type = part_type
        /\ report.violations[i].color_id = color_id }

\* the permitted colours and the quantity of the kit, read from its fields
Permitted(part_type) ==
    IF part_type = "brick"
    THEN { kit_spec.available_colors_brick[j] : j \in 1..Len(kit_spec.available_colors_brick) }
    ELSE { kit_spec.available_colors_tile[j] : j \in 1..Len(kit_spec.available_colors_tile) }

Stocked(part_type, color_id) ==
    IF part_type = "brick"
    THEN IF color_id \in DOMAIN kit_spec.brick_quantities
         THEN kit_spec.brick_quantities[color_id] ELSE 0
    ELSE IF color_id \in DOMAIN kit_spec.tile_quantities
         THEN kit_spec.tile_quantities[color_id] ELSE 0

\* C12: for each part type and color_id, validate emits one ColorUnavailable
\* violation when the pair occurs in the layout and the colour is not
\* permitted for the part type, one QuantityExceeded violation when it occurs,
\* is permitted and is placed more often than the kit stocks it, and no
\* violation otherwise; every violation is for such a pair
C12_OneOutcomePerPair ==
    v_pc = "done" =>
        /\ \A i \in 1..Len(report.violations) :
               /\ report.violations[i].part_type \in {"brick", "tile"}
               /\ report.violations[i].color_id \in ColorIds
        /\ \A part_type \in {"brick", "tile"} : \A color_id \in ColorIds :
               IF Placed(part_type, color_id) = 0
               THEN Reported(part_type, color_id) = {}
               ELSE IF color_id \notin Permitted(part_type)
               THEN /\ Cardinality(Reported(part_type, color_id)) = 1
                    /\ \A i \in Reported(part_type, color_id) :
                           report.violations[i].type = "color_unavailable"
               ELSE IF Placed(part_type, color_id) > Stocked(part_type, color_id)
               THEN /\ Cardinality(Reported(part_type, color_id)) = 1
                    /\ \A i \in Reported(part_type, color_id) :
                           report.violations[i].type = "quantity_exceeded"
               ELSE Reported(part_type, color_id) = {}

\* a report with a violation of each kind and a placed pair without one
C12_Witness ==
    /\ v_pc = "done"
    /\ \E i \in 1..Len(report.violations) :
           report.violations[i].type = "color_unavailable"
    /\ \E i \in 1..Len(report.violations) :
           report.violations[i].type = "quantity_exceeded"
    /\ \E part_type \in {"brick", "tile"} : \E color_id \in ColorIds :
           /\ Placed(part_type, color_id) > 0
           /\ Placed(part_type, color_id) = Stocked(part_type, color_id)
           /\ Reported(part_type, color_id) = {}

\* C13: in the report of validate, buildable is true iff there is no
\* violation; with no violation the buildability_score is 1.0; with a
\* violation buildable is false and the buildability_score is below 1.0
C13_ReportConsistent ==
    v_pc = "done" =>
        /\ report.buildable <=> (Len(report.violations) = 0)
        /\ Len(report.violations) = 0 =>
               report.buildability_score[1] = report.buildability_score[2]
        /\ Len(report.violations) > 0 =>
               /\ ~report.buildable
               /\ report.buildability_score[1] < report.buildability_score[2]

\* C14: the buildability_score validate reports lies in [0, 1], also for a
\* grid whose list is sparse or longer than width * height
C14_ScoreInUnitInterval ==
    v_pc = "done" =>
        /\ report.buildability_score[2] > 0
        /\ report.buildability_score[1] >= 0
        /\ report.buildability_score[1] <= report.buildability_score[2]

\* the layout is a grid as generate produces it from the palette: every cell
\* of the grid filled row by row with a colour of the palette
GeneratedFromPalette ==
    /\ layout.width > 0 /\ layout.height > 0
    /\ Len(layout.positions) = layout.width * layout.height
    /\ \A i \in 1..Len(layout.positions) :
           \E j \in 1..Len(palette) : \E land \in BOOLEAN :
               layout.positions[i] =
                   cell_placement((i - 1) % layout.width, (i - 1) \div layout.width,
                                  palette[j], land)

\* the color_ids the palette gives an RGB to
PaletteIds == { make_color_id(palette[j].name) : j \in 1..Len(palette) }

\* the ColorUnavailable violations of the report
Unavailable ==
    { i \in 1..Len(report.violations) : report.violations[i].type = "color_unavailable" }

\* a colour placed on land that is permitted for tiles and not for bricks has
\* a brick ColorUnavailable violation
C15_TileOnlyColourReported ==
    \A color_id \in ColorIds :
        ( /\ Placed("brick", color_id) > 0
          /\ color_id \in Permitted("tile")
          /\ color_id \notin Permitted("brick") )
        => \E i \in Unavailable : /\ report.violations[i].part_type = "brick"
                                  /\ report.violations[i].color_id = color_id

\* C15 as stated: every ColorUnavailable violation for a grid generated from
\* the palette carries a suggested alternative
C15_AlwaysSuggests ==
    (v_pc = "done" /\ GeneratedFromPalette) =>
        /\ \A i \in Unavailable :
               report.violations[i].suggested_alternative # NoSuggestion
        /\ C15_TileOnlyColourReported

\* C15: every ColorUnavailable violation for a grid generated from the
\* palette carries a suggested alternative, provided the permitted list of
\* the violation's part type names at least one colour of the palette; a
\* colour used on land that is permitted for tiles and not for bricks has a
\* brick ColorUnavailable violation
C15_SuggestsWhenPermittedKnown ==
    (v_pc = "done" /\ GeneratedFromPalette) =>
        /\ \A i \in Unavailable :
               (Permitted(report.violations[i].part_type) \cap PaletteIds # {})
                   <=> (report.violations[i].suggested_alternative # NoSuggestion)
        /\ C15_TileOnlyColourReported

\* a generated grid with a land colour permitted for tiles only, reported with
\* a suggestion
C15_Witness ==
    /\ v_pc = "done" /\ GeneratedFromPalette
    /\ \E i \in Unavailable :
           /\ report.violations[i].part_type = "brick"
           /\ report.violations[i].color_id \in Permitted("tile")
           /\ report.violations[i].suggested_alternative # NoSuggestion
           /\ report.violations[i].suggested_alternative.color_id
                  \in Permitted("brick") \cap PaletteIds

\* the QuantityExceeded violations of the report
Exceeded ==
    { i \in 1..Len(report.violations) : report.violations[i].type = "quantity_exceeded" }

\* C16: every QuantityExceeded violation has positions_required equal to the
\* number of placements with its part type and color_id, kit_quantity equal
\* to the kit's quantity for the pair, 0 when the colour is permitted without
\* a quantity entry, and shortfall = positions_required - kit_quantity > 0
C16_ShortfallExact ==
    v_pc = "done" =>
        \A i \in Exceeded :
            /\ report.violations[i].positions_required
                   = Placed(report.violations[i].part_type, report.violations[i].color_id)
            /\ report.violations[i].kit_quantity
                   = Stocked(report.violations[i].part_type, report.violations[i].color_id)
            /\ report.violations[i].shortfall
                   = report.violations[i].positions_required
                         - report.violations[i].kit_quantity
            /\ report.violations[i].shortfall > 0

\* a report with a QuantityExceeded violation for a colour the kit stocks and
\* one for a permitted colour without a quantity entry
C16_Witness ==
    /\ v_pc = "done"
    /\ \E i \in Exceeded :
           /\ report.violations[i].kit_quantity > 0
           /\ report.violations[i].shortfall < report.violations[i].positions_required
    /\ \E i \in Exceeded :
           /\ report.violations[i].part_type = "brick"
           /\ report.violations[i].color_id \notin DOMAIN kit_spec.brick_quantities
           /\ report.violations[i].kit_quantity = 0

\* the permitted colours of a part type in the kit's order
PermittedList(part_type) ==
    IF part_type = "brick" THEN kit_spec.available_colors_brick
    ELSE kit_spec.available_colors_tile

\* the RGB the palette gives a color_id
PaletteRgb(color_id) ==
    palette[CHOOSE j \in 1..Len(palette) : make_color_id(palette[j].name) = color_id].rgb

\* the squared Euclidean distance of the RGBs of two color_ids of the palette
SquaredDistance(id1, id2) ==
    (PaletteRgb(id1)[1] - PaletteRgb(id2)[1]) * (PaletteRgb(id1)[1] - PaletteRgb(id2)[1])
    + (PaletteRgb(id1)[2] - PaletteRgb(id2)[2]) * (PaletteRgb(id1)[2] - PaletteRgb(id2)[2])
    + (PaletteRgb(id1)[3] - PaletteRgb(id2)[3]) * (PaletteRgb(id1)[3] - PaletteRgb(id2)[3])

\* the indices of a part type's permitted colours that the palette knows
KnownPermitted(part_type) ==
    { k \in 1..Len(PermittedList(part_type)) : PermittedList(part_type)[k] \in PaletteIds }

\* permitted colour j of the part type is nearest to the required colour, and
\* no permitted colour before it is as near
NearestFirst(part_type, required, j) ==
    /\ j \in KnownPermitted(part_type)
    /\ \A k \in KnownPermitted(part_type) :
           /\ SquaredDistance(required, PermittedList(part_type)[j])
                  <= SquaredDistance(required, PermittedList(part_type)[k])
           /\ k < j => SquaredDistance(required, PermittedList(part_type)[j])
                           < SquaredDistance(required, PermittedList(part_type)[k])

-----------------------------------------------------------------------------
(* layout/grid.py: the life of a PositionPlacementGrid object              *)

\* PositionPlacement.to_dict: the dictionary of the seven attributes
to_dict(p) ==
    [x |-> p.x, y |-> p.y, color_id |-> p.color_id, color_name |-> p.color_name,
     lego_color_code |-> p.lego_color_code, part_type |-> p.part_type,
     lego_part_id |-> p.lego_part_id]

\* PositionPlacement.from_dict: the constructor applied to the dictionary's
\* entries
from_dict(data) ==
    PositionPlacement(data.x, data.y, data.color_id, data.color_name,
                      data.lego_color_code, data.part_type, data.lego_part_id)

\* the ValueError of __post_init__: the first check that fails
post_init_error(p) ==
    [exception |-> "ValueError",
     what |-> IF p.x < 0 THEN "x coordinate must be >= 0"
              ELSE IF p.y < 0 THEN "y coordinate must be >= 0"
              ELSE IF p.part_type \notin {"brick", "tile"}
              THEN "part_type must be 'brick' or 'tile'"
              ELSE IF p.lego_part_id \notin {"3062b", "98138"}
              THEN "lego_part_id must be '3062b' or '98138'"
              ELSE IF p.part_type = "brick" THEN "part_type 'brick' must use lego_part_id '3062b'"
              ELSE "part_type 'tile' must use lego_part_id '98138'",
     args |-> <<p.x, p.y>>]

\* a mutant of compute_counts: the cached counts are left as they are
compute_counts_skipped(g) == g

\* _compute_counts: the three cached counts, from self._positions
compute_counts(g) ==
    [g EXCEPT !.land_positions = count_part_type(g.positions, "brick"),
              !.ocean_positions = count_part_type(g.positions, "tile"),
              !.unique_colors = count_unique_colors(g.positions)]

\* a mutant of indexed: the index is keyed (y, x)
indexed_transposed(g, position) ==
    [g EXCEPT !.position_map = (<<position.y, position.x>> :> position) @@ @]

\* self._position_map[(position.x, position.y)] = position
indexed(g, position) ==
    [g EXCEPT !.position_map = (<<position.x, position.y>> :> position) @@ @]

\* self._positions.append(position)
appended(g, position) == [g EXCEPT !.positions = Append(@, position)]

\* PositionPlacementGrid.add_position
add_position(g, position) == compute_counts(indexed(appended(g, position), position))

\* the positions of a JSON document as from_json builds them
json_positions(data) == [i \in 1..Len(data.positions) |-> from_dict(data.positions[i])]

\* the first entry of a JSON document's positions that __post_init__ refuses
first_refused(data) ==
    CHOOSE i \in 1..Len(data.positions) :
        /\ ~post_init_valid(from_dict(data.positions[i]))
        /\ \A k \in 1..(i - 1) : post_init_valid(from_dict(data.positions[k]))

\* from_json raises no ValueError
json_valid(data) ==
    \A i \in 1..Len(data.positions) : post_init_valid(from_dict(data.positions[i]))

\* a mutant of from_json: generated_at is not handed to the constructor
from_json_regenerated(data, now) ==
    [PositionPlacementGrid(data.metadata.width, data.metadata.height,
                           json_positions(data), data.metadata.source_image,
                           None, now)
        EXCEPT !.schema_version = data.metadata.schema_version]

\* PositionPlacementGrid.from_json, of the parsed document
from_json(data, now) ==
    [PositionPlacementGrid(data.metadata.width, data.metadata.height,
                           json_positions(data), data.metadata.source_image,
                           data.metadata.generated_at, now)
        EXCEPT !.schema_version = data.metadata.schema_version]

\* the number of placements a grid object of the model holds
MaxGridPositions == 3

\* the sizes of the grids: no cell, one cell, one row of two cells
GridSizes == { <<0, 0>>, <<1, 1>>, <<2, 1>> }

\* the placements handed to the constructor and to add_position: bricks and
\* tiles of two colours at three coordinates, each accepted by __post_init__
GridPlacements ==
    { cell_placement(c[1], c[2], color, land)
      : c \in { <<0, 0>>, <<1, 0>>, <<0, 1>> },
        color \in {BrightRed, BrightBlue}, land \in BOOLEAN }

\* the lists handed to the constructor: of up to two placements
GridLists ==
    { <<>> } \cup { <<p>> : p \in GridPlacements }
             \cup { <<p, q>> : p, q \in GridPlacements }

\* dictionaries that __post_init__ refuses
RefusedDicts ==
    { [to_dict(cell_placement(0, 0, BrightRed, TRUE)) EXCEPT !.x = -1],
      [to_dict(cell_placement(0, 0, BrightRed, TRUE)) EXCEPT !.y = -1],
      [to_dict(cell_placement(0, 0, BrightRed, TRUE)) EXCEPT !.part_type = "plate"],
      [to_dict(cell_placement(0, 0, BrightRed, TRUE)) EXCEPT !.lego_part_id = "98138"] }

\* the parsed JSON documents handed to from_json: of up to two positions,
\* with cached counts in the metadata that need not be those of the list
JsonDocuments ==
    { [metadata |-> [width |-> d[1], height |-> d[2], land_positions |-> 1,
                     ocean_positions |-> 0, unique_colors |-> 1,
                     schema_version |-> "1.0", source_image |-> "quantized.png",
                     generated_at |-> "2024-05-01T10:00:00Z"],
       positions |-> ps]
      : d \in GridSizes,
        ps \in { <<>> } \cup { <<to_dict(p)>> : p \in GridPlacements }
                        \cup { <<r>> : r \in RefusedDicts }
                        \cup { <<to_dict(p), r>> : p \in GridPlacements, r \in RefusedDicts }
                        \cup { <<to_dict(p), to_dict(cell_placement(0, 0, BrightBlue, FALSE))>>
                               : p \in GridPlacements } }

InitGrid ==
    /\ DeltaEOff /\ FindOff /\ QuantizeOff /\ NoPalette /\ NoImage /\ NoMask
    /\ GenerateOff /\ ValidateOff /\ LaterOff
    /\ p_pc = "new"
    /\ placement_grid = NoGrid
    /\ p_error = NoError
    /\ json_str = NoJson
    /\ restored = NoGrid

\* PositionPlacementGrid(width, height, positions, source_image)
Construct ==
    /\ p_pc = "new"
    /\ \E d \in GridSizes : \E ps \in GridLists : \E now \in Clock :
           placement_grid' = PositionPlacementGrid(d[1], d[2], ps, "quantized.png",
                                                   None, now)
    /\ p_pc' = "constructed"
    /\ UNCHANGED <<xvars, dvars, palette, fvars, image, qvars, mask, gvars, vvars, p_error,
                   json_str, restored>>

\* PositionPlacementGrid.from_json(json_str)
FromJson ==
    /\ p_pc = "new"
    /\ \E data \in JsonDocuments :
           IF json_valid(data)
           THEN /\ \E now \in Clock : placement_grid' = from_json(data, now)
                /\ p_pc' = "constructed"
                /\ UNCHANGED p_error
           ELSE /\ p_error' = post_init_error(from_dict(data.positions[first_refused(data)]))
                /\ p_pc' = "raised"
                /\ UNCHANGED placement_grid
    /\ UNCHANGED <<xvars, dvars, palette, fvars, image, qvars, mask, gvars, vvars, json_str,
                   restored>>

\* grid.add_position(position)
AddPosition ==
    /\ p_pc = "constructed"
    /\ Len(placement_grid.positions) < MaxGridPositions
    /\ \E position \in GridPlacements :
           placement_grid' = add_position(placement_grid, position)
    /\ UNCHANGED <<xvars, dvars, palette, fvars, image, qvars, mask, gvars, vvars, p_pc, p_error,
                   json_str, restored>>

\* the indices of the object's list that hold a part type
Holding(part_type) ==
    { i \in 1..Len(placement_grid.positions) :
        placement_grid.positions[i].part_type = part_type }

\* C18: after construction and after every add_position, land_positions +
\* ocean_positions is the number of placements of the list, and the cached
\* land, ocean and unique-colour counts are those recomputed from the list
C18_CountsMatchList ==
    p_pc = "constructed" =>
        /\ placement_grid.land_positions + placement_grid.ocean_positions
               = Len(placement_grid.positions)
        /\ placement_grid.land_positions = Cardinality(Holding("brick"))
        /\ placement_grid.ocean_positions = Cardinality(Holding("tile"))
        /\ placement_grid.unique_colors
               = Cardinality({ placement_grid.positions[i].color_id
                               : i \in 1..Len(placement_grid.positions) })

\* a grid grown by add_position to bricks and tiles of two colours
C18_Witness ==
    /\ p_pc = "constructed"
    /\ Len(placement_grid.positions) = MaxGridPositions
    /\ placement_grid.land_positions > 0
    /\ placement_grid.ocean_positions > 0
    /\ placement_grid.unique_colors = 2

\* the coordinates of the placements of the object's list
ListCoordinates ==
    { <<placement_grid.positions[i].x, placement_grid.positions[i].y>>
      : i \in 1..Len(placement_grid.positions) }

\* C19: after construction and after every add_position, every entry of the
\* (x, y) index is a placement of the list with those coordinates, and every
\* placement of the list has its coordinates in the index
C19_IndexWithinList ==
    p_pc = "constructed" =>
        /\ \A c \in DOMAIN placement_grid.position_map :
               \E i \in 1..Len(placement_grid.positions) :
                   /\ placement_grid.positions[i] = placement_grid.position_map[c]
                   /\ placement_grid.positions[i].x = c[1]
                   /\ placement_grid.positions[i].y = c[2]
        /\ DOMAIN placement_grid.position_map = ListCoordinates

\* a grid grown by add_position in which two placements share coordinates
\* and a third has others, with x different from y
C19_Witness ==
    /\ p_pc = "constructed"
    /\ Len(placement_grid.positions) = MaxGridPositions
    /\ Cardinality(ListCoordinates) = 2
    /\ placement_grid.positions[MaxGridPositions].x
           # placement_grid.positions[MaxGridPositions].y
    /\ placement_grid.position_map[<<placement_grid.positions[MaxGridPositions].x,
                                     placement_grid.positions[MaxGridPositions].y>>]
           = placement_grid.positions[MaxGridPositions]

\* C20: every placement a PositionPlacementGrid holds has 0 <= x < width and
\* 0 <= y < height, after construction, from_json and every add_position
C20_WithinBounds ==
    p_pc = "constructed" =>
        \A i \in 1..Len(placement_grid.positions) :
            /\ 0 <= placement_grid.positions[i].x
            /\ placement_grid.positions[i].x < placement_grid.width
            /\ 0 <= placement_grid.positions[i].y
            /\ placement_grid.positions[i].y < placement_grid.height

-----------------------------------------------------------------------------
(* layout/grid.py: compute_statistics, to_json and the JSON text           *)

\* the keys of Counter(p.color_id for p in self._positions)
counted_colors(ps) == { ps[i].color_id : i \in 1..Len(ps) }

\* color_counter[color_id]
color_counter(ps, color_id) == Cardinality({ i \in 1..Len(ps) : ps[i].color_id = color_id })

\* the place of a color_id in the Counter's order: that of its first
\* placement in the list
first_occurrence(ps, color_id) ==
    CHOOSE i \in 1..Len(ps) :
        /\ ps[i].color_id = color_id
        /\ \A k \in 1..(i - 1) : ps[k].color_id # color_id

\* a mutant of most_common: of the colours with the highest count, the one
\* whose count is complete first in the list
most_common_first_complete(ps) ==
    CHOOSE c \in counted_colors(ps) :
        \A d \in counted_colors(ps) :
            /\ color_counter(ps, c) >= color_counter(ps, d)
            /\ (d # c /\ color_counter(ps, d) = color_counter(ps, c)) =>
                   \E n \in 1..Len(ps) :
                       /\ color_counter(SubSeq(ps, 1, n), c) = color_counter(ps, c)
                       /\ color_counter(SubSeq(ps, 1, n), d) < color_counter(ps, d)

\* color_counter.most_common(1)[0][0]: the first key, in the Counter's order,
\* that has the highest count
most_common(ps) ==
    CHOOSE c \in counted_colors(ps) :
        \A d \in counted_colors(ps) :
            /\ color_counter(ps, c) >= color_counter(ps, d)
            /\ (d # c /\ color_counter(ps, d) = color_counter(ps, c)) =>
                   first_occurrence(ps, c) < first_occurrence(ps, d)

\* the most_common_color dictionary
most_common_color(ps, color_id) ==
    [color_id |-> color_id,
     color_name |-> ps[first_occurrence(ps, color_id)].color_name,
     count |-> color_counter(ps, color_id)]

\* dict(Counter(p.color_id for p in self._positions if p.part_type == part_type))
color_frequency_of(ps, part_type) ==
    [c \in { ps[i].color_id : i \in { k \in 1..Len(ps) : ps[k].part_type = part_type } } |->
        Cardinality({ i \in 1..Len(ps) : ps[i].part_type = part_type /\ ps[i].color_id = c })]

\* coverage: len(self._positions) / expected_positions * 100.0 as the fraction
\* <<numerator, denominator>>, 0.0 when expected_positions is 0
coverage(g) ==
    IF g.width * g.height > 0
    THEN <<100 * Len(g.positions), g.width * g.height>>
    ELSE <<0, 1>>

\* the LayoutStatistics of a grid without placements
empty_statistics ==
    [total_tile_count |-> 0, land_brick_count |-> 0, ocean_tile_count |-> 0,
     unique_colors |-> 0, color_frequency |-> <<>>,
     color_frequency_by_part_type |-> [brick |-> <<>>, tile |-> <<>>],
     most_common_color |-> <<>>, coverage_percentage |-> <<0, 1>>]

\* PositionPlacementGrid.compute_statistics
compute_statistics(g) ==
    IF Len(g.positions) = 0 THEN empty_statistics
    ELSE [total_tile_count |-> Len(g.positions),
          land_brick_count |-> g.land_positions,
          ocean_tile_count |-> g.ocean_positions,
          unique_colors |-> g.unique_colors,
          color_frequency |->
              [c \in counted_colors(g.positions) |-> color_counter(g.positions, c)],
          color_frequency_by_part_type |->
              [brick |-> color_frequency_of(g.positions, "brick"),
               tile |-> color_frequency_of(g.positions, "tile")],
          most_common_color |->
              most_common_color(g.positions, most_common(g.positions)),
          coverage_percentage |-> coverage(g)]

\* the dictionary to_json hands to json.dumps
to_json_data(g) ==
    [metadata |->
         [width |-> g.width, height |-> g.height,
          total_positions |-> total_positions(g),
          land_positions |-> g.land_positions,
          ocean_positions |-> g.ocean_positions,
          unique_colors |-> g.unique_colors,
          generated_at |-> g.generated_at,
          source_image |-> g.source_image,
          schema_version |-> g.schema_version,
          coordinate_system |-> g.coordinate_system],
     positions |-> [i \in 1..Len(g.positions) |-> to_dict(g.positions[i])],
     statistics |-> compute_statistics(g)]

\* the decimal digits json.dumps writes for a non-negative int
RECURSIVE digits(_)
digits(n) == IF n < 10 THEN <<n>> ELSE Append(digits(n \div 10), n % 10)

\* the int json.loads reads from decimal digits
RECURSIVE int_of_digits(_)
int_of_digits(ds) ==
    IF Len(ds) = 0 THEN 0
    ELSE 10 * int_of_digits(SubSeq(ds, 1, Len(ds) - 1)) + ds[Len(ds)]

\* json.dumps of an int: a sign and decimal digits
dumps_int(n) == [minus |-> n < 0, digits |-> digits(Abs(n))]

\* json.loads of a number without fraction
loads_int(t) == IF t.minus THEN -int_of_digits(t.digits) ELSE int_of_digits(t.digits)

\* json.dumps of a str: the text between the quotes
dumps_str(s) == [quoted |-> s]

\* json.loads of a string
loads_str(t) == t.quoted

\* json.dumps of a float, held as a fraction
dumps_float(q) == [numerator |-> dumps_int(q[1]), denominator |-> dumps_int(q[2])]

\* json.loads of a number with a fraction
loads_float(t) == <<loads_int(t.numerator), loads_int(t.denominator)>>

\* json.dumps and json.loads of a dictionary of ints
dumps_counts(f) == [c \in DOMAIN f |-> dumps_int(f[c])]

loads_counts(t) == [c \in DOMAIN t |-> loads_int(t[c])]

\* json.dumps and json.loads of a position dictionary
dumps_position(d) ==
    [x |-> dumps_int(d.x), y |-> dumps_int(d.y), color_id |-> dumps_str(d.color_id),
     color_name |-> dumps_str(d.color_name),
     lego_color_code |-> dumps_str(d.lego_color_code),
     part_type |-> dumps_str(d.part_type), lego_part_id |-> dumps_str(d.lego_part_id)]

loads_position(t) ==
    [x |-> loads_int(t.x), y |-> loads_int(t.y), color_id |-> loads_str(t.color_id),
     color_name |-> loads_str(t.color_name),
     lego_color_code |-> loads_str(t.lego_color_code),
     part_type |-> loads_str(t.part_type), lego_part_id |-> loads_str(t.lego_part_id)]

\* json.dumps and json.loads of the metadata dictionary
dumps_metadata(m) ==
    [width |-> dumps_int(m.width), height |-> dumps_int(m.height),
     total_positions |-> dumps_int(m.total_positions),
     land_positions |-> dumps_int(m.land_positions),
     ocean_positions |-> dumps_int(m.ocean_positions),
     unique_colors |-> dumps_int(m.unique_colors),
     generated_at |-> dumps_str(m.generated_at),
     source_image |-> dumps_str(m.source_image),
     schema_version |-> dumps_str(m.schema_version),
     coordinate_system |-> dumps_str(m.coordinate_system)]

loads_metadata(t) ==
    [width |-> loads_int(t.width), height |-> loads_int(t.height),
     total_positions |-> loads_int(t.total_positions),
     land_positions |-> loads_int(t.land_positions),
     ocean_positions |-> loads_int(t.ocean_positions),
     unique_colors |-> loads_int(t.unique_colors),
     generated_at |-> loads_str(t.generated_at),
     source_image |-> loads_str(t.source_image),
     schema_version |-> loads_str(t.schema_version),
     coordinate_system |-> loads_str(t.coordinate_system)]

\* json.dumps and json.loads of the most_common_color dictionary, which is
\* empty for a grid without placements
dumps_most_common(m) ==
    IF DOMAIN m = {} THEN <<>>
    ELSE [color_id |-> dumps_str(m.color_id), color_name |-> dumps_str(m.color_name),
          count |-> dumps_int(m.count)]

loads_most_common(t) ==
    IF DOMAIN t = {} THEN <<>>
    ELSE [color_id |-> loads_str(t.color_id), color_name |-> loads_str(t.color_name),
          count |-> loads_int(t.count)]

\* json.dumps and json.loads of the statistics dictionary
dumps_statistics(st) ==
    [total_tile_count |-> dumps_int(st.total_tile_count),
     land_brick_count |-> dumps_int(st.land_brick_count),
     ocean_tile_count |-> dumps_int(st.ocean_tile_count),
     unique_colors |-> dumps_int(st.unique_colors),
     color_frequency |-> dumps_counts(st.color_frequency),
     color_frequency_by_part_type |->
         [brick |-> dumps_counts(st.color_frequency_by_part_type.brick),
          tile |-> dumps_counts(st.color_frequency_by_part_type.tile)],
     most_common_color |-> dumps_most_common(st.most_common_color),
     coverage_percentage |-> dumps_float(st.coverage_percentage)]

loads_statistics(t) ==
    [total_tile_count |-> loads_int(t.total_tile_count),
     land_brick_count |-> loads_int(t.land_brick_count),
     ocean_tile_count |-> loads_int(t.ocean_tile_count),
     unique_colors |-> loads_int(t.unique_colors),
     color_frequency |-> loads_counts(t.color_frequency),
     color_frequency_by_part_type |->
         [brick |-> loads_counts(t.color_frequency_by_part_type.brick),
          tile |-> loads_counts(t.color_frequency_by_part_type.tile)],
     most_common_color |-> loads_most_common(t.most_common_color),
     coverage_percentage |-> loads_float(t.coverage_percentage)]

\* json.dumps(data, indent=indent): the text, as the tree of its values
json_dumps(data) ==
    [metadata |-> dumps_metadata(data.metadata),
     positions |-> [i \in 1..Len(data.positions) |-> dumps_position(data.positions[i])],
     statistics |-> dumps_statistics(data.statistics)]

\* json.loads(json_str)
json_loads(text) ==
    [metadata |-> loads_metadata(text.metadata),
     positions |-> [i \in 1..Len(text.positions) |-> loads_position(text.positions[i])],
     statistics |-> loads_statistics(text.statistics)]

\* PositionPlacementGrid.to_json
to_json(g) == json_dumps(to_json_data(g))

\* json_str = grid.to_json()
ToJson ==
    /\ p_pc = "constructed"
    /\ json_str' = to_json(placement_grid)
    /\ p_pc' = "serialized"
    /\ UNCHANGED <<xvars, dvars, palette, fvars, image, qvars, mask, gvars, vvars,
                   placement_grid, p_error, restored>>

\* restored = PositionPlacementGrid.from_json(json_str)
Reload ==
    /\ p_pc = "serialized"
    /\ \E now \in Clock : restored' = from_json(json_loads(json_str), now)
    /\ p_pc' = "restored"
    /\ UNCHANGED <<xvars, dvars, palette, fvars, image, qvars, mask, gvars, vvars,
                   placement_grid, p_error, json_str>>

NextGrid == Construct \/ FromJson \/ AddPosition \/ ToJson \/ Reload

SpecGrid == InitGrid /\ [][NextGrid]_vars

\* C21: from_json(g.to_json()) has the width, height, total_positions,
\* land_positions, ocean_positions and number of placements of g, equal
\* placements in the same order, and the generated_at, source_image and
\* schema_version of g
C21_RoundTrip ==
    p_pc = "restored" =>
        /\ restored.width = placement_grid.width
        /\ restored.height = placement_grid.height
        /\ total_positions(restored) = total_positions(placement_grid)
        /\ restored.land_positions = placement_grid.land_positions
        /\ restored.ocean_positions = placement_grid.ocean_positions
        /\ Len(restored.positions) = Len(placement_grid.positions)
        /\ \A i \in 1..Len(placement_grid.positions) :
               restored.positions[i] = placement_grid.positions[i]
        /\ restored.generated_at = placement_grid.generated_at
        /\ restored.source_image = placement_grid.source_image
        /\ restored.schema_version = placement_grid.schema_version

\* a grid of bricks and tiles, two of them at the same coordinates, written
\* and read back
C21_Witness ==
    /\ p_pc = "restored"
    /\ Len(restored.positions) = MaxGridPositions
    /\ restored.land_positions > 0
    /\ restored.ocean_positions > 0
    /\ Cardinality(DOMAIN restored.position_map) < MaxGridPositions
    /\ restored.generated_at = "2024-05-02T10:00:00Z"

-----------------------------------------------------------------------------
(* layout/position.py: constructing a PositionPlacement                    *)

\* the arguments of the constructions of the model: coordinates around 0,
\* the two part types and part ids and one foreign value of each
PlacementArguments ==
    { PositionPlacement(x, y, "lego_white", "White", "1", part_type, lego_part_id)
      : x \in -1..1, y \in -1..1, part_type \in {"brick", "tile", "plate"},
        lego_part_id \in {"3062b", "98138", "3024"} }

\* every variable but those of the construction of a PositionPlacement
except_position ==
    <<dvars, palette, fvars, image, qvars, mask, gvars, vvars, pvars, lvars, statistics>>

InitPosition ==
    /\ DeltaEOff /\ FindOff /\ QuantizeOff /\ NoPalette /\ NoImage /\ NoMask
    /\ GenerateOff /\ ValidateOff /\ GridOff /\ LoadOff /\ StatisticsOff
    /\ pp_pc = "call"
    /\ pp_args \in [via : {"PositionPlacement", "from_dict"}, data : PlacementArguments]
    /\ pp_placement = NoPlacement
    /\ pp_error = NoError

\* PositionPlacement(x=..., ...): the dataclass's __init__ and __post_init__
NewPlacement ==
    /\ pp_pc = "call"
    /\ pp_args.via = "PositionPlacement"
    /\ IF post_init_valid(pp_args.data)
       THEN /\ pp_placement' = pp_args.data
            /\ pp_pc' = "constructed"
            /\ UNCHANGED pp_error
       ELSE /\ pp_error' = post_init_error(pp_args.data)
            /\ pp_pc' = "raised"
            /\ UNCHANGED pp_placement
    /\ UNCHANGED <<except_position, pp_args>>

\* PositionPlacement.from_dict(data)
FromDict ==
    /\ pp_pc = "call"
    /\ pp_args.via = "from_dict"
    /\ IF post_init_valid(from_dict(pp_args.data))
       THEN /\ pp_placement' = from_dict(pp_args.data)
            /\ pp_pc' = "constructed"
            /\ UNCHANGED pp_error
       ELSE /\ pp_error' = post_init_error(from_dict(pp_args.data))
            /\ pp_pc' = "raised"
            /\ UNCHANGED pp_placement
    /\ UNCHANGED <<except_position, pp_args>>

NextPosition == NewPlacement \/ FromDict

SpecPosition == InitPosition /\ [][NextPosition]_vars

\* the arguments name one of the two fixed pairs at non-negative coordinates
FixedPair ==
    /\ pp_args.data.x >= 0
    /\ pp_args.data.y >= 0
    /\ <<pp_args.data.part_type, pp_args.data.lego_part_id>>
           \in { <<"brick", "3062b">>, <<"tile", "98138">> }

\* C22: constructing a PositionPlacement, directly or through from_dict,
\* succeeds only with x >= 0, y >= 0 and one of the pairs (brick, 3062b),
\* (tile, 98138); every other construction fails with an error and leaves
\* no object
C22_ConstructionChecked ==
    /\ pp_pc = "constructed" =>
           /\ FixedPair
           /\ pp_placement = pp_args.data
    /\ pp_pc = "raised" =>
           /\ ~FixedPair
           /\ pp_error.exception = "ValueError"
           /\ pp_placement = NoPlacement

\* a construction refused for its pairing alone
C22_Witness ==
    /\ pp_pc = "raised"
    /\ pp_args.via = "from_dict"
    /\ pp_args.data.x >= 0 /\ pp_args.data.y >= 0
    /\ pp_args.data.part_type = "tile"
    /\ pp_args.data.lego_part_id = "3062b"

-----------------------------------------------------------------------------
(* layout/land_sea_mask.py: load_land_sea_mask under functools.lru_cache   *)

\* dict.get(key, default)
get(d, key, default) == IF key \in DOMAIN d THEN d[key] ELSE default

\* the coordinates load_land_sea_mask adds to land_positions: those of the
\* entries of land_coordinates that are lists of two items
parsed_land_positions(data) ==
    { <<get(data, "land_coordinates", <<>>)[i].items[1],
        get(data, "land_coordinates", <<>>)[i].items[2]>>
      : i \in { k \in 1..Len(get(data, "land_coordinates", <<>>)) :
                  /\ get(data, "land_coordinates", <<>>)[k].is_list
                  /\ Len(get(data, "land_coordinates", <<>>)[k].items) = 2 } }

\* a mutant of count_mismatch: the entries of land_coordinates are counted,
\* not the coordinates parsed from them
count_mismatch_entries(data) ==
    Len(get(data, "land_coordinates", <<>>)) # get(data, "land_positions", 3062)

\* len(land_positions) != expected_land
count_mismatch(data) ==
    Cardinality(parsed_land_positions(data)) # get(data, "land_positions", 3062)

\* the file a path names is absent
Missing == [missing |-> TRUE]

\* the exception the body of load_land_sea_mask raises, NoError when it
\* returns
load_error(data) ==
    IF data = Missing
    THEN [exception |-> "FileNotFoundError", what |-> "Land/sea mask file not found",
          args |-> <<>>]
    ELSE IF count_mismatch(data)
    THEN [exception |-> "ValueError", what |-> "Land position count mismatch",
          args |-> <<get(data, "land_positions", 3062),
                     Cardinality(parsed_land_positions(data))>>]
    ELSE NoError

\* the LandSeaMask the body of load_land_sea_mask returns, as object number id
loaded_mask(data, id) ==
    [id |-> id,
     mask |-> LandSeaMask(get(get(data, "dimensions", <<>>), "width", 128),
                          get(get(data, "dimensions", <<>>), "height", 80),
                          parsed_land_positions(data)),
     source |-> get(data, "source", "LEGO World Map kit 31203 instruction manual"),
     extracted_date |-> get(data, "extracted_date", get(data, "extraction_date", ""))]

\* lru_cache(maxsize=1)
maxsize == 1

\* the keys of the cache
cache_keys(cache) == { cache[i].key : i \in 1..Len(cache) }

\* the value the cache holds for a key
cache_value(cache, key) == cache[CHOOSE i \in 1..Len(cache) : cache[i].key = key].value

\* a cache hit moves the entry to the most recent end
cache_touched(cache, key) ==
    SelectSeq(cache, LAMBDA e : e.key # key)
        \o SelectSeq(cache, LAMBDA e : e.key = key)

\* a mutant of cache_stored: a full cache keeps its entries
cache_stored_unbounded(cache, key, value) ==
    IF key \in cache_keys(cache) THEN cache
    ELSE Append(cache, [key |-> key, value |-> value])

\* the cache after the wrapper has the result of a miss: a key stored in the
\* meantime is left alone, a full cache loses its oldest entry
cache_stored(cache, key, value) ==
    IF key \in cache_keys(cache) THEN cache
    ELSE IF Len(cache) >= maxsize
    THEN Append(Tail(cache), [key |-> key, value |-> value])
    ELSE Append(cache, [key |-> key, value |-> value])

\* an entry of land_coordinates: a JSON array of numbers
coordinate(items) == [is_list |-> TRUE, items |-> items]

\* the mask files of the model, each of a grid of two cells unless it has no
\* dimensions: one land cell; the same cell twice; two cells for an expected
\* count of one; a coordinate outside the grid; a malformed entry beside a
\* cell; no land_positions field; no dimensions; the same cell twice for an
\* expected count of two
MaskDocuments ==
    { ("dimensions" :> [width |-> 2, height |-> 1])
          @@ ("land_coordinates" :> <<coordinate(<<0, 0>>)>>) @@ ("land_positions" :> 1)
          @@ ("source" :> "manual") @@ ("extracted_date" :> "2024-01-01"),
      ("dimensions" :> [width |-> 2, height |-> 1])
          @@ ("land_coordinates" :> <<coordinate(<<0, 0>>), coordinate(<<0, 0>>)>>)
          @@ ("land_positions" :> 1),
      ("dimensions" :> [width |-> 2, height |-> 1])
          @@ ("land_coordinates" :> <<coordinate(<<0, 0>>), coordinate(<<1, 0>>)>>)
          @@ ("land_positions" :> 1),
      ("dimensions" :> [width |-> 2, height |-> 1])
          @@ ("land_coordinates" :> <<coordinate(<<5, 5>>)>>) @@ ("land_positions" :> 1),
      ("dimensions" :> [width |-> 2, height |-> 1])
          @@ ("land_coordinates" :> <<coordinate(<<1, 0>>), coordinate(<<7>>)>>)
          @@ ("land_positions" :> 1) @@ ("extraction_date" :> "2024-02-02"),
      ("dimensions" :> [width |-> 2, height |-> 1])
          @@ ("land_coordinates" :> <<coordinate(<<0, 0>>)>>),
      ("land_coordinates" :> <<>>) @@ ("land_positions" :> 0),
      ("dimensions" :> [width |-> 2, height |-> 1])
          @@ ("land_coordinates" :> <<coordinate(<<0, 0>>), coordinate(<<0, 0>>)>>)
          @@ ("land_positions" :> 2) }

\* the paths load_land_sea_mask is called with
MaskPaths == { "a.json", "b.json" }

\* the calls one thread makes one after the other
MaxCalls == 3

\* the calls each of several threads makes
ConcurrentCalls == 1

\* every variable but those of load_land_sea_mask
except_load ==
    <<dvars, palette, fvars, image, qvars, mask, gvars, vvars, pvars, ppvars, statistics>>

\* the start of a process: the files on disk, an empty cache, no call made
InitFiles ==
    /\ DeltaEOff /\ FindOff /\ QuantizeOff /\ NoPalette /\ NoImage /\ NoMask
    /\ GenerateOff /\ ValidateOff /\ GridOff /\ PositionOff /\ StatisticsOff
    /\ mask_files \in [MaskPaths -> MaskDocuments \cup {Missing}]
    /\ mask_files["b.json"] = ("dimensions" :> [width |-> 2, height |-> 1])
          @@ ("land_coordinates" :> <<coordinate(<<1, 0>>), coordinate(<<7>>)>>)
          @@ ("land_positions" :> 1) @@ ("extraction_date" :> "2024-02-02")
    /\ lru_cache = <<>>
    /\ instances = 0
    /\ l_pc = [t \in Threads |-> "idle"]
    /\ l_path = [t \in Threads |-> ""]
    /\ l_value = [t \in Threads |-> NoInstance]
    /\ l_error = [t \in Threads |-> NoError]
    /\ returns = <<>>

\* one thread makes its calls one after the other
InitLoad ==
    /\ InitFiles
    /\ l_left = [t \in Threads |-> IF t = 1 THEN MaxCalls ELSE 0]

\* every thread makes its calls, at any relative speed
InitLoadConcurrent ==
    /\ InitFiles
    /\ l_left = [t \in Threads |-> ConcurrentCalls]

\* load_land_sea_mask(mask_path): the wrapper looks the key up; on a hit it
\* returns the cached object, on a miss it goes on to the function
Lookup(t) ==
    /\ l_pc[t] \in {"idle", "returned", "raised"}
    /\ l_left[t] > 0
    /\ \E path \in MaskPaths :
           /\ l_path' = [l_path EXCEPT ![t] = path]
           /\ IF path \in cache_keys(lru_cache)
              THEN /\ l_pc' = [l_pc EXCEPT ![t] = "returned"]
                   /\ l_value' = [l_value EXCEPT ![t] = cache_value(lru_cache, path)]
                   /\ lru_cache' = cache_touched(lru_cache, path)
                   /\ returns' = Append(returns,
                                        [thread |-> t, path |-> path,
                                         id |-> cache_value(lru_cache, path).id,
                                         parsed |-> FALSE])
              ELSE /\ l_pc' = [l_pc EXCEPT ![t] = "miss"]
                   /\ l_value' = [l_value EXCEPT ![t] = NoInstance]
                   /\ UNCHANGED <<lru_cache, returns>>
    /\ l_left' = [l_left EXCEPT ![t] = @ - 1]
    /\ l_error' = [l_error EXCEPT ![t] = NoError]
    /\ UNCHANGED <<except_load, mask_files, instances>>

\* the body of load_land_sea_mask: the file is read, parsed and validated,
\* and a LandSeaMask constructed
Load(t) ==
    /\ l_pc[t] = "miss"
    /\ IF load_error(mask_files[l_path[t]]) # NoError
       THEN /\ l_pc' = [l_pc EXCEPT ![t] = "raised"]
            /\ l_error' = [l_error EXCEPT ![t] = load_error(mask_files[l_path[t]])]
            /\ UNCHANGED <<l_value, instances>>
       ELSE /\ l_pc' = [l_pc EXCEPT ![t] = "computed"]
            /\ instances' = instances + 1
            /\ l_value' = [l_value EXCEPT
                              ![t] = loaded_mask(mask_files[l_path[t]], instances + 1)]
            /\ UNCHANGED l_error
    /\ UNCHANGED <<except_load, mask_files, lru_cache, l_path, l_left, returns>>

\* the wrapper stores the result of the miss and returns it
Store(t) ==
    /\ l_pc[t] = "computed"
    /\ lru_cache' = cache_stored(lru_cache, l_path[t], l_value[t])
    /\ l_pc' = [l_pc EXCEPT ![t] = "returned"]
    /\ returns' = Append(returns, [thread |-> t, path |-> l_path[t],
                                   id |-> l_value[t].id, parsed |-> TRUE])
    /\ UNCHANGED <<except_load, mask_files, instances, l_path, l_value, l_error, l_left>>

NextLoad == \E t \in Threads : Lookup(t) \/ Load(t) \/ Store(t)

SpecLoad == InitLoad /\ [][NextLoad]_vars

SpecLoadConcurrent == InitLoadConcurrent /\ [][NextLoad]_vars

\* C23: in any sequence of load_land_sea_mask calls of one process, two
\* successful calls for the same path return the very same LandSeaMask
\* instance, and the later one does not parse the file again
C23_SameInstancePerPath ==
    \A i \in 1..Len(returns) : \A j \in 1..Len(returns) :
        (i < j /\ returns[i].path = returns[j].path)
            => (returns[j].id = returns[i].id /\ ~returns[j].parsed)

\* C24: threads that call load_land_sea_mask for the same path while the
\* cache is empty all obtain one LandSeaMask instance
C24_ConcurrentCallsConverge ==
    \A s \in Threads : \A t \in Threads :
        (/\ l_pc[s] = "returned" /\ l_pc[t] = "returned"
         /\ l_path[s] = l_path[t])
            => l_value[s].id = l_value[t].id

\* the count the file announces for its land coordinates
ExpectedLand(data) == get(data, "land_positions", 3062)

\* the count of the land coordinates parsed from the file
ParsedLand(data) == Cardinality(parsed_land_positions(data))

\* C25: load_land_sea_mask raises ValueError, and caches nothing, whenever
\* the count of the coordinates parsed from the file differs from the count
\* the file announces; it returns a mask only when the two are equal, and
\* the mask has that count of land positions
C25_CountMismatchRaises ==
    /\ \A t \in Threads :
           l_pc[t] \in {"computed", "returned"}
               => /\ mask_files[l_path[t]] # Missing
                  /\ ParsedLand(mask_files[l_path[t]]) = ExpectedLand(mask_files[l_path[t]])
                  /\ l_value[t].mask.land_count = ExpectedLand(mask_files[l_path[t]])
    /\ \A t \in Threads :
           (l_pc[t] = "raised" /\ mask_files[l_path[t]] # Missing)
               => /\ l_error[t].exception = "ValueError"
                  /\ ParsedLand(mask_files[l_path[t]]) # ExpectedLand(mask_files[l_path[t]])
                  /\ l_error[t].args = <<ExpectedLand(mask_files[l_path[t]]),
                                         ParsedLand(mask_files[l_path[t]])>>
                  /\ l_value[t] = NoInstance
                  /\ l_path[t] \notin cache_keys(lru_cache)
    /\ \A i \in 1..Len(lru_cache) :
           /\ mask_files[lru_cache[i].key] # Missing
           /\ ParsedLand(mask_files[lru_cache[i].key])
                  = ExpectedLand(mask_files[lru_cache[i].key])

\* a call has raised ValueError for a file whose entries are not all
\* distinct, after an earlier call had cached the mask of the other file
C25_Witness ==
    /\ l_pc[1] = "raised"
    /\ l_error[1].exception = "ValueError"
    /\ Len(mask_files[l_path[1]]["land_coordinates"]) = ExpectedLand(mask_files[l_path[1]])
    /\ Len(lru_cache) = 1
    /\ Len(returns) = 1

\* the cells of a mask
MaskCells(m) == (0..(m.width - 1)) \X (0..(m.height - 1))

\* C26: of every loaded mask, land_count is the number of the cells that
\* is_land holds of, ocean_count the number of the cells it does not hold
\* of, and land_count + ocean_count = total_positions = width * height
C26_CountsMatchCells ==
    \A t \in Threads :
        l_pc[t] \in {"computed", "returned"}
            => /\ l_value[t].mask.land_count
                      = Cardinality({ c \in MaskCells(l_value[t].mask) :
                                        is_land(l_value[t].mask, c[1], c[2]) })
               /\ l_value[t].mask.ocean_count
                      = Cardinality({ c \in MaskCells(l_value[t].mask) :
                                        ~is_land(l_value[t].mask, c[1], c[2]) })
               /\ l_value[t].mask.land_count + l_value[t].mask.ocean_count
                      = l_value[t].mask.total_positions
               /\ l_value[t].mask.total_positions
                      = l_value[t].mask.width * l_value[t].mask.height

-----------------------------------------------------------------------------
(* layout/grid.py: compute_statistics on a constructed grid                *)

\* the longest list of placements compute_statistics is called on
MaxStatisticsPositions == 4

\* the colours of the placements
StatisticsColors == {BrightRed, BrightBlue, White}

\* the grids compute_statistics is called on: one row, filled from the left
\* with placements of any colours, bricks at the even columns
StatisticsGrids ==
    UNION { { PositionPlacementGrid(MaxStatisticsPositions, 1,
                  [i \in 1..n |-> cell_placement(i - 1, 0, colors[i], (i - 1) % 2 = 0)],
                  source_filename, "2024-05-01T10:00:00Z", None)
              : colors \in [1..n -> StatisticsColors] }
            : n \in 0..MaxStatisticsPositions }

InitStatistics ==
    /\ DeltaEOff /\ FindOff /\ QuantizeOff /\ NoPalette /\ NoImage /\ NoMask
    /\ GenerateOff /\ ValidateOff /\ LaterOff
    /\ p_pc = "constructed"
    /\ placement_grid \in StatisticsGrids
    /\ p_error = NoError
    /\ json_str = NoJson
    /\ restored = NoGrid

\* grid.compute_statistics()
ComputeStatistics ==
    /\ p_pc = "constructed"
    /\ statistics = NoStatistics
    /\ statistics' = compute_statistics(placement_grid)
    /\ UNCHANGED <<dvars, palette, fvars, image, qvars, mask, gvars, vvars, pvars,
                   ppvars, lvars>>

NextStatistics == ComputeStatistics

SpecStatistics == InitStatistics /\ [][NextStatistics]_vars

\* the number of the first n placements of the grid that have the colour
CountIn(n, color_id) ==
    Cardinality({ i \in 1..n : placement_grid.positions[i].color_id = color_id })

\* the number of the placements of the grid that have the colour
CountOf(color_id) == CountIn(Len(placement_grid.positions), color_id)

\* the colours of the grid that no colour is more frequent than
MostFrequent ==
    { c \in counted_colors(placement_grid.positions) :
        \A d \in counted_colors(placement_grid.positions) : CountOf(d) <= CountOf(c) }

\* the index of the first placement of the colour
FirstAt(color_id) ==
    CHOOSE i \in 1..Len(placement_grid.positions) :
        CountIn(i, color_id) = 1 /\ CountIn(i - 1, color_id) = 0

\* the index of the placement at which the count of the colour is complete
CompleteAt(color_id) ==
    CHOOSE i \in 1..Len(placement_grid.positions) :
        CountIn(i, color_id) = CountOf(color_id) /\ CountIn(i - 1, color_id) < CountOf(color_id)

\* compute_statistics has returned the statistics of a grid with placements
Computed == statistics # NoStatistics /\ Len(placement_grid.positions) > 0

\* C27: most_common_color is a colour of maximal count, with that count, and
\* of several colours that reach the maximal count it is the first one
\* encountered in a scan of the placements in list order
C27_FirstEncountered ==
    Computed =>
        /\ statistics.most_common_color.color_id \in MostFrequent
        /\ statistics.most_common_color.count = CountOf(statistics.most_common_color.color_id)
        /\ \A d \in MostFrequent \ {statistics.most_common_color.color_id} :
               FirstAt(statistics.most_common_color.color_id) < FirstAt(d)

\* the statistics of a grid in which two colours tie and the one that occurs
\* first is the last to reach its count
C27_Witness ==
    /\ Computed
    /\ Cardinality(MostFrequent) = 2
    /\ \E d \in MostFrequent :
           /\ FirstAt(statistics.most_common_color.color_id) < FirstAt(d)
           /\ CompleteAt(d) < CompleteAt(statistics.most_common_color.color_id)

-----------------------------------------------------------------------------
(* layout/generator.py: the progress callback of generate                  *)

\* the placement generate makes of the k-th cell in row-major order, from
\* the image, the palette and the mask alone
PlacementOfCell(k) ==
    cell_placement((k - 1) % EXPECTED_WIDTH, (k - 1) \div EXPECTED_WIDTH,
                   rgb_to_color(palette)[getpixel(image, (k - 1) % EXPECTED_WIDTH,
                                                  (k - 1) \div EXPECTED_WIDTH)],
                   is_land(mask, (k - 1) % EXPECTED_WIDTH, (k - 1) \div EXPECTED_WIDTH))

\* C28: a progress callback given to generate is called once per cell, right
\* after the placement of the cell is appended, with current = 1, 2, ...,
\* width * height in increasing order and total = width * height; the
\* placements of the returned grid are those made without a callback: they
\* depend on the image, the palette and the mask alone
C28_ProgressPerCell ==
    /\ progress_callback =>
           /\ Len(progress) = Len(positions)
           /\ \A k \in 1..Len(progress) :
                  progress[k] = <<k, EXPECTED_WIDTH * EXPECTED_HEIGHT>>
    /\ ~progress_callback => progress = <<>>
    /\ g_pc = "returned" =>
           /\ Len(grid.positions) = EXPECTED_WIDTH * EXPECTED_HEIGHT
           /\ \A k \in 1..Len(grid.positions) : grid.positions[k] = PlacementOfCell(k)

\* generate has returned a grid after calling the callback for every cell
C28_Witness ==
    /\ g_pc = "returned"
    /\ progress_callback
    /\ Len(progress) = EXPECTED_WIDTH * EXPECTED_HEIGHT
    /\ progress[Len(progress)] = <<Len(grid.positions), Len(grid.positions)>>

-----------------------------------------------------------------------------
(* core/color_quantizer.py and layout/generator.py on one palette and image *)

\* the images handed to both: of the expected size, of one palette colour
\* but for one pixel
ResolveImages ==
    ImagesOfSize(<<EXPECTED_WIDTH, EXPECTED_HEIGHT>>,
                 { {i} : i \in 1..(EXPECTED_WIDTH * EXPECTED_HEIGHT) })

\* a ColorQuantizer and a LayoutGenerator are built with the same palette,
\* and quantize, find_closest_color and generate are called with the same
\* image and its colours
InitResolve ==
    /\ DeltaEOff /\ ValidateOff /\ GridOff /\ LaterOff
    /\ palette \in Palettes
    /\ image \in ResolveImages
    /\ mask = LandSeaMask(EXPECTED_WIDTH, EXPECTED_HEIGHT, {<<0, 0>>})
    /\ f_pc = "call"
    /\ query = <<>>
    /\ closest = NoColor
    /\ q_pc = "start"
    /\ unique_colors = <<>>
    /\ inverse_indices = <<>>
    /\ closest_indices = <<>>
    /\ batch_i = 0
    /\ q_result = NoResult
    /\ progress_callback = FALSE
    /\ g_pc = "validate_dimensions"
    /\ g_calls = <<>>
    /\ g_x = 0
    /\ g_y = 0
    /\ positions = <<>>
    /\ progress = <<>>
    /\ g_error = NoError
    /\ grid = NoGrid

NextResolve ==
    \/ QuantizeUnique \/ QuantizeBatch \/ QuantizeReturn
    \/ ValidateDimensions \/ ValidateColors \/ GenerateCell \/ CreateGrid
    \/ \E rgb \in GenerateColors : FindClosestColor(rgb)

SpecResolve == InitResolve /\ [][NextResolve]_vars

\* the colours color_mapping holds for an RGB triple
MappedTo(rgb) ==
    { q_result.color_mapping[k][2] :
        k \in { n \in 1..Len(q_result.color_mapping) : q_result.color_mapping[n][1] = rgb } }

\* the placement is written from the colour: its name, the color_id made of
\* the name and the code made of the id
WrittenFrom(placement, color) ==
    /\ placement.color_name = color.name
    /\ placement.color_id = make_color_id(color.name)
    /\ placement.lego_color_code = ToString(color.id)

\* C29: for every palette, with or without colours of the same RGB, and every
\* pixel whose RGB is that of a palette colour, the colour generate writes
\* into the placement of the pixel is the colour that quantize's
\* color_mapping holds for the RGB and that find_closest_color returns for it
C29_SameColorResolved ==
    \A k \in 1..Len(positions) :
        image.pixels[k] \in PaletteRGBs =>
            /\ q_pc = "done" =>
                   \A c \in MappedTo(image.pixels[k]) : WrittenFrom(positions[k], c)
            /\ (f_pc = "done" /\ query = image.pixels[k]) =>
                   WrittenFrom(positions[k], closest)

-----------------------------------------------------------------------------
(* layout/grid.py: get_position                                            *)

\* the indices of the placements of a grid's list that are at (x, y)
placed_at(g, x, y) ==
    { i \in 1..Len(g.positions) : g.positions[i].x = x /\ g.positions[i].y = y }

\* a mutant of get_position: the first placement of the list at (x, y)
get_position_first(g, x, y) ==
    IF placed_at(g, x, y) = {} THEN None
    ELSE g.positions[CHOOSE i \in placed_at(g, x, y) :
                         \A k \in placed_at(g, x, y) : i <= k]

\* PositionPlacementGrid.get_position: self._position_map.get((x, y))
get_position(g, x, y) ==
    IF <<x, y>> \in DOMAIN g.position_map THEN g.position_map[<<x, y>>] ELSE None

\* the coordinates get_position is asked about
LookupCoordinates == (0..2) \X (0..1)

\* the index of the placement stored last for (x, y)
StoredLast(x, y) ==
    CHOOSE i \in placed_at(placement_grid, x, y) :
        \A k \in placed_at(placement_grid, x, y) : k <= i

\* C30: after construction and any add_position calls, get_position(x, y) is
\* the placement stored last for (x, y), None if none was stored; a later
\* placement at an occupied coordinate replaces the earlier one in the
\* lookup while both stay in the list and both are counted
C30_LatestPlacementFound ==
    p_pc = "constructed" =>
        /\ \A c \in LookupCoordinates :
               get_position(placement_grid, c[1], c[2])
                   = IF placed_at(placement_grid, c[1], c[2]) = {} THEN None
                     ELSE placement_grid.positions[StoredLast(c[1], c[2])]
        /\ placement_grid.land_positions + placement_grid.ocean_positions
               = Len(placement_grid.positions)

\* add_position has stored a third placement at the coordinates of the
\* first, of another colour; a coordinate holds no placement
C30_Witness ==
    /\ p_pc = "constructed"
    /\ Len(placement_grid.positions) = MaxGridPositions
    /\ placement_grid.positions[1].x = placement_grid.positions[MaxGridPositions].x
    /\ placement_grid.positions[1].y = placement_grid.positions[MaxGridPositions].y
    /\ placement_grid.positions[1].color_id
           # placement_grid.positions[MaxGridPositions].color_id
    /\ get_position(placement_grid, placement_grid.positions[1].x,
                    placement_grid.positions[1].y)
           = placement_grid.positions[MaxGridPositions]
    /\ get_position(placement_grid, 2, 1) = None

=============================================================================
